---- MODULE Spec2Model ----
(***************************************************************************)
(* Hybrid document retrieval pipeline: fan-out search, aggregation, RRF    *)
(* ranking and token-budgeted context extraction.                          *)
(*                                                                         *)
(* Strings are sequences of symbols.  A symbol is one character, except    *)
(* for a few atomic multi-character symbols ("page_", "_page_", "pdf",     *)
(* the tag opener "<PAGE " ...) whose character count is given by SymLen.  *)
(* Python's None is the one-symbol string None for optional strings and    *)
(* NoneInt for optional integers.                                          *)
(***************************************************************************)
EXTENDS Integers, Sequences, FiniteSets, TLC

None == <<"<None>">>
NoneInt == 0 - 1

(***************************************************************************)
(* Bounds                                                                  *)
(***************************************************************************)
MaxDocs == 2
MaxChunks == 2
\* the longest text handed to format_page_tags, in symbols
MaxContentLen == 5
\* the most ranges handed to _merge_ranges, and the highest page in them
MaxRanges == 3
MaxPage == 4
\* the longest conversation and the most messages of one add_messages call
MaxHistory == 18
MaxBatch == 2

(***************************************************************************)
(* Program constants                                                       *)
(***************************************************************************)
DefaultMaxTokens == 125000
DefaultInitialPadding == 25

(***************************************************************************)
(* String primitives                                                       *)
(***************************************************************************)
Digit == {"0", "1", "2", "3", "4", "5", "6", "7", "8", "9"}
Whitespace == {" ", "\n"}

SymLen(c) ==
    CASE c = "page_" -> 5
      [] c = "_page_" -> 6
      [] c = "pdf" -> 3
      [] c = "<PAGE " -> 6
      [] c = "</PAGE " -> 7
      [] OTHER -> 1

RECURSIVE StrLen(_)
StrLen(s) == IF s = << >> THEN 0 ELSE SymLen(Head(s)) + StrLen(Tail(s))

SetMin(S) == CHOOSE x \in S : \A y \in S : x <= y
SetMax(S) == CHOOSE x \in S : \A y \in S : x >= y
Max2(a, b) == IF a >= b THEN a ELSE b
Min2(a, b) == IF a <= b THEN a ELSE b

DigitVal(c) ==
    CASE c = "0" -> 0 [] c = "1" -> 1 [] c = "2" -> 2 [] c = "3" -> 3
      [] c = "4" -> 4 [] c = "5" -> 5 [] c = "6" -> 6 [] c = "7" -> 7
      [] c = "8" -> 8 [] c = "9" -> 9

DigitSym(d) ==
    CASE d = 0 -> "0" [] d = 1 -> "1" [] d = 2 -> "2" [] d = 3 -> "3"
      [] d = 4 -> "4" [] d = 5 -> "5" [] d = 6 -> "6" [] d = 7 -> "7"
      [] d = 8 -> "8" [] d = 9 -> "9"

\* int("12")
RECURSIVE ToInt(_)
ToInt(ds) ==
    IF ds = << >> THEN 0
    ELSE ToInt(SubSeq(ds, 1, Len(ds) - 1)) * 10 + DigitVal(ds[Len(ds)])

\* f"{n}" for n >= 0
RECURSIVE ToStr(_)
ToStr(n) == IF n < 10 THEN <<DigitSym(n)>> ELSE ToStr(n \div 10) \o <<DigitSym(n % 10)>>

\* the maximal run of digits of s starting at position i (empty when none)
RECURSIVE DigitRun(_, _)
DigitRun(s, i) ==
    IF i > Len(s) \/ s[i] \notin Digit THEN << >>
    ELSE <<s[i]>> \o DigitRun(s, i + 1)

MatchAt(s, pat, i) ==
    /\ i >= 1
    /\ i + Len(pat) - 1 <= Len(s)
    /\ SubSeq(s, i, i + Len(pat) - 1) = pat

\* str.find(pat, from): the least position >= from where pat occurs, 0 when
\* there is none (positions are 1-based; Python's -1 is 0 here)
Find(s, pat, from) ==
    LET idx == {i \in from..Len(s) : MatchAt(s, pat, i)}
    IN IF idx = {} THEN 0 ELSE SetMin(idx)

\* str.strip()
RECURSIVE LStrip(_)
LStrip(s) == IF s # << >> /\ Head(s) \in Whitespace THEN LStrip(Tail(s)) ELSE s
RECURSIVE RStrip(_)
RStrip(s) ==
    IF s # << >> /\ s[Len(s)] \in Whitespace THEN RStrip(SubSeq(s, 1, Len(s) - 1)) ELSE s
Strip(s) == RStrip(LStrip(s))

\* sep.join(parts)
RECURSIVE Join(_, _)
Join(sep, parts) ==
    IF parts = << >> THEN << >>
    ELSE IF Len(parts) = 1 THEN parts[1]
    ELSE parts[1] \o sep \o Join(sep, Tail(parts))

\* Python truthiness of an optional string
Truthy(s) == s # None /\ s # << >>

(***************************************************************************)
(* models.py                                                               *)
(***************************************************************************)
chunk_count(candidate) == Len(candidate.chunks)

DocumentContext(document_id, context, source_index, pdf_gcs_uri) ==
    [document_id |-> document_id, context |-> context,
     source_index |-> source_index, pdf_gcs_uri |-> pdf_gcs_uri]

(***************************************************************************)
(* delta_context_extractor.py                                              *)
(***************************************************************************)
\* int(len(text) / 3.3 * 1.1); the float expression equals len // 3 for
\* every length below 5000
estimate_tokens(text) == (StrLen(text) * 11) \div 33

\* sorted(set(int(m) for m in _PAGE_PATTERN.findall(content))), as a set
PageMarkers(content) ==
    {ToInt(DigitRun(content, i + 1)) :
        i \in {j \in 1..Len(content) :
                 content[j] = "page_" /\ DigitRun(content, j + 1) # << >>}}

_empty_context(candidate) ==
    DocumentContext(candidate.document_id, << >>,
                    IF candidate.chunks # << >> THEN candidate.chunks[1].source_index ELSE "",
                    None)

\* one pass of the greedy loop of _extract_raw_chunks over chunks_to_try:
\* acc = [text |-> chunks_text, tokens |-> tokens]
RECURSIVE RawGreedy(_, _, _)
RawGreedy(chunks_to_try, budget, acc) ==
    IF chunks_to_try = << >> THEN acc
    ELSE LET chunk == Head(chunks_to_try)
             chunk_tokens == estimate_tokens(chunk.content)
         IN IF acc.tokens + chunk_tokens <= budget
            THEN RawGreedy(Tail(chunks_to_try), budget,
                           [text |-> Append(acc.text, chunk.content),
                            tokens |-> acc.tokens + chunk_tokens])
            ELSE RawGreedy(Tail(chunks_to_try), budget, acc)

\* the ratios 1.0, 0.9, ..., 0.1 in tenths
RawRatios == <<10, 9, 8, 7, 6, 5, 4, 3, 2, 1>>

ChunkSeparator == <<"\n", "\n">>

RECURSIVE RawChunksFrom(_, _, _, _)
RawChunksFrom(candidate, source_index, budget, r) ==
    IF r > Len(RawRatios)
    THEN [ctx |-> _empty_context(candidate), used_tokens |-> 0, padding |-> 0,
          tier |-> "raw_empty"]
    ELSE LET total_chunks == Len(candidate.chunks)
             chunk_limit == Max2(1, (total_chunks * RawRatios[r]) \div 10)
             chunks_to_try == SubSeq(candidate.chunks, 1, Min2(chunk_limit, total_chunks))
             acc == RawGreedy(chunks_to_try, budget, [text |-> << >>, tokens |-> 0])
         IN IF acc.text # << >>
            THEN [ctx |-> DocumentContext(candidate.document_id,
                                          Join(ChunkSeparator, acc.text),
                                          source_index, candidate.pdf_gcs_uri),
                  used_tokens |-> acc.tokens,
                  padding |-> 0 - Len(acc.text),
                  tier |-> "raw"]
            ELSE RawChunksFrom(candidate, source_index, budget, r + 1)

_extract_raw_chunks(candidate, source_index, budget) ==
    RawChunksFrom(candidate, source_index, budget, 1)

\* sorted(ranges): insertion of one pair into a list sorted lexicographically
PairLeq(a, b) == a[1] < b[1] \/ (a[1] = b[1] /\ a[2] <= b[2])

RECURSIVE InsertRange(_, _)
InsertRange(r, sorted) ==
    IF sorted = << >> THEN <<r>>
    ELSE IF PairLeq(r, Head(sorted)) THEN <<r>> \o sorted
    ELSE <<Head(sorted)>> \o InsertRange(r, Tail(sorted))

RECURSIVE SortRanges(_)
SortRanges(ranges) ==
    IF ranges = << >> THEN << >> ELSE InsertRange(Head(ranges), SortRanges(Tail(ranges)))

RECURSIVE MergeFold(_, _)
MergeFold(rest, merged) ==
    IF rest = << >> THEN merged
    ELSE LET start == Head(rest)[1]
             end == Head(rest)[2]
             last == merged[Len(merged)]
         IN IF start <= last[2] + 1
            THEN MergeFold(Tail(rest),
                           [merged EXCEPT ![Len(merged)] = <<last[1], Max2(last[2], end)>>])
            ELSE MergeFold(Tail(rest), Append(merged, <<start, end>>))

\* a variant that sorts the ranges and merges none
SortedUnmerged(ranges) == SortRanges(ranges)

_merge_ranges(ranges) ==
    LET sorted_ranges == SortRanges(ranges)
    IN MergeFold(Tail(sorted_ranges), <<sorted_ranges[1]>>)

_extract_pages(content, start, end, last_page) ==
    LET found == Find(content, <<"page_">> \o ToStr(start), 1)
        start_idx == IF found = 0 THEN 1 ELSE found
    IN IF end >= last_page
       THEN Strip(SubSeq(content, start_idx, Len(content)))
       ELSE LET end_idx == Find(content, <<"page_">> \o ToStr(end + 1), start_idx)
            IN Strip(SubSeq(content, start_idx,
                            IF end_idx # 0 THEN end_idx - 1 ELSE Len(content)))

PartSeparator == <<"\n", ".", ".", ".", "\n">>

\* the list "ranges" of _build_context
PageRanges(page_nums, available, padding) ==
    [i \in 1..Len(page_nums) |->
        <<Max2(SetMin(available), page_nums[i] - padding),
          Min2(SetMax(available), page_nums[i] + padding)>>]

\* the list "parts" of _build_context
PageParts(content, merged, available) ==
    [i \in 1..Len(merged) |->
        _extract_pages(content, merged[i][1], merged[i][2], SetMax(available))]

_build_context(content, page_nums, available, padding) ==
    LET ranges == [i \in 1..Len(page_nums) |->
                      <<Max2(SetMin(available), page_nums[i] - padding),
                        Min2(SetMax(available), page_nums[i] + padding)>>]
        merged == _merge_ranges(ranges)
        parts == [i \in 1..Len(merged) |->
                     _extract_pages(content, merged[i][1], merged[i][2], SetMax(available))]
    IN Join(PartSeparator, parts)

\* a variant that returns the whole full_content whatever the budget
FullContentAlways(candidate, source_index, budget) ==
    [ctx |-> DocumentContext(candidate.document_id, candidate.full_content,
                             source_index, candidate.pdf_gcs_uri),
     used_tokens |-> estimate_tokens(candidate.full_content), padding |-> 0,
     tier |-> "full"]

_full_or_empty(candidate, source_index, budget) ==
    LET tokens == estimate_tokens(candidate.full_content)
    IN IF tokens <= budget
       THEN [ctx |-> DocumentContext(candidate.document_id, candidate.full_content,
                                     source_index, candidate.pdf_gcs_uri),
             used_tokens |-> tokens, padding |-> 0, tier |-> "full"]
       ELSE _extract_raw_chunks(candidate, source_index, budget)

\* a ladder that starts with the smallest padding
PaddingsAscending(first_padding) == <<0, 1, 2, 5, 10, 15, first_padding>>

\* for padding in [initial_padding, 15, 10, 5, 2, 1, 0]
Paddings(first_padding) == <<first_padding, 15, 10, 5, 2, 1, 0>>

RECURSIVE PaddingFrom(_, _, _, _, _, _)
PaddingFrom(candidate, source_index, budget, page_nums, available, pads) ==
    IF pads = << >>
    THEN _extract_raw_chunks(candidate, source_index, budget)
    ELSE LET padding == Head(pads)
             context == _build_context(candidate.full_content, page_nums, available, padding)
             tokens == estimate_tokens(context)
         IN IF tokens > 0 /\ tokens <= budget
            THEN [ctx |-> DocumentContext(candidate.document_id, context,
                                          source_index, candidate.pdf_gcs_uri),
                  used_tokens |-> tokens, padding |-> padding, tier |-> "padding"]
            ELSE PaddingFrom(candidate, source_index, budget, page_nums, available, Tail(pads))

\* [c.metadata.page_number for c in chunks if c.metadata.page_number]
RECURSIVE PageNums(_)
PageNums(chunks) ==
    IF chunks = << >> THEN << >>
    ELSE LET p == Head(chunks).metadata.page_number
         IN (IF p # NoneInt /\ p # 0 THEN <<p>> ELSE << >>) \o PageNums(Tail(chunks))

_extract_with_budget(candidate, budget, initial_padding) ==
    IF candidate.chunks = << >> \/ ~Truthy(candidate.full_content)
    THEN [ctx |-> _empty_context(candidate), used_tokens |-> 0, padding |-> 0,
          tier |-> "empty"]
    ELSE LET source_index == candidate.chunks[1].source_index
             page_nums == PageNums(candidate.chunks)
             available == PageMarkers(candidate.full_content)
         IN IF page_nums = << >>
            THEN _full_or_empty(candidate, source_index, budget)
            ELSE IF available = {}
            THEN _full_or_empty(candidate, source_index, budget)
            ELSE PaddingFrom(candidate, source_index, budget, page_nums, available,
                             Paddings(initial_padding))

RECURSIVE SumWeights(_)
SumWeights(cands) ==
    IF cands = << >> THEN 0 ELSE chunk_count(Head(cands)) + SumWeights(Tail(cands))

\* int(weight / total_weight * max_tokens); the float expression equals the
\* integer quotient for the weights and budgets of this model
Budget(weight, total_weight, max_tokens) == (weight * max_tokens) \div total_weight

\* the per-candidate extraction records of extract_context_delta; the
\* division raises ZeroDivisionError on the first candidate when the total
\* weight is 0
ExtractionTrace(cands, max_tokens, initial_padding) ==
    LET total_weight == SumWeights(cands)
    IN [i \in 1..Len(cands) |->
           _extract_with_budget(cands[i],
                                Budget(chunk_count(cands[i]), total_weight, max_tokens),
                                initial_padding)]

extract_context_delta(cands, max_tokens, initial_padding) ==
    IF cands # << >> /\ SumWeights(cands) = 0
    THEN [exc |-> "ZeroDivisionError", value |-> << >>]
    ELSE LET trace == ExtractionTrace(cands, max_tokens, initial_padding)
         IN [exc |-> "none", value |-> [i \in 1..Len(cands) |-> trace[i].ctx]]

\* list(re.finditer(r'page_(\d+)\n?', content)) from position i on: each
\* match is [start, end, page_num] with end the first position after it
RECURSIVE TagMatches(_, _)
TagMatches(content, i) ==
    IF i > Len(content) THEN << >>
    ELSE IF content[i] = "page_" /\ DigitRun(content, i + 1) # << >>
    THEN LET page_num == DigitRun(content, i + 1)
             after == i + 1 + Len(page_num)
             end == IF after <= Len(content) /\ content[after] = "\n"
                    THEN after + 1 ELSE after
         IN <<[start |-> i, end |-> end, page_num |-> page_num]>>
            \o TagMatches(content, end)
    ELSE TagMatches(content, i + 1)

\* an opening tag that repeats the marker it stands for
OpenTagWithMarker(page_num) == <<"page_">> \o page_num \o <<">", "\n">>

OpenTag(page_num) == <<"<PAGE ">> \o page_num \o <<">", "\n">>

\* a closing tag that is left out
NoCloseTag(page_num) == << >>

CloseTag(page_num) == <<"</PAGE ">> \o page_num \o <<">">>

\* the loop of format_page_tags over the matches; prev_page = << >> is None
RECURSIVE FormatLoop(_, _, _, _, _)
FormatLoop(content, matches, prev_page, last_pos, result) ==
    IF matches = << >>
    THEN result \o SubSeq(content, last_pos, Len(content))
         \o (IF prev_page # << >> THEN CloseTag(prev_page) ELSE << >>)
    ELSE LET match == Head(matches)
             before == SubSeq(content, last_pos, match.start - 1)
             closed == IF prev_page # << >>
                       THEN result \o before \o CloseTag(prev_page) \o <<"\n">>
                       ELSE IF match.start > 1 THEN result \o before ELSE result
         IN FormatLoop(content, Tail(matches), match.page_num, match.end,
                       closed \o OpenTag(match.page_num))

format_page_tags(content) ==
    IF content = << >> THEN content
    ELSE LET matches == TagMatches(content, 1)
         IN IF matches = << >> THEN content
            ELSE FormatLoop(content, matches, << >>, 1, << >>)

(***************************************************************************)
(* post_retriver.py                                                        *)
(***************************************************************************)
\* re.sub(r'_page_\d+(\.[^.]+)$', r'\1', gcs_uri): the extension starts at
\* the last dot, and the digits directly before it follow "_page_"
LastDot(uri) ==
    LET dots == {i \in 1..Len(uri) : uri[i] = "."}
    IN IF dots = {} THEN 0 ELSE SetMax(dots)

fixed_uri(gcs_uri) ==
    LET d == LastDot(gcs_uri)
        starts == {i \in 1..Len(gcs_uri) :
                     /\ gcs_uri[i] = "_page_"
                     /\ d > i + 1
                     /\ d < Len(gcs_uri)
                     /\ i + Len(DigitRun(gcs_uri, i + 1)) = d - 1}
    IN IF starts = {} THEN gcs_uri
       ELSE LET i == SetMin(starts)
            IN SubSeq(gcs_uri, 1, i - 1) \o SubSeq(gcs_uri, d, Len(gcs_uri))

\* the loop over the extracted contexts: a context without pdf_gcs_uri is
\* skipped by the continue statement
RECURSIVE RspDocs(_)
RspDocs(extracted) ==
    IF extracted = << >> THEN << >>
    ELSE LET doc == Head(extracted)
         IN IF ~Truthy(doc.pdf_gcs_uri)
            THEN RspDocs(Tail(extracted))
            ELSE <<DocumentContext(doc.document_id, format_page_tags(doc.context),
                                   doc.source_index, fixed_uri(doc.pdf_gcs_uri))>>
                 \o RspDocs(Tail(extracted))

AsyncPostRetriever_exec_async(documents) ==
    IF documents = << >> THEN << >>
    ELSE LET extracted == extract_context_delta(documents, DefaultMaxTokens,
                                                DefaultInitialPadding)
         IN IF extracted.exc # "none" THEN << >> ELSE RspDocs(extracted.value)


(***************************************************************************)
(* rrf_ranker.py                                                           *)
(*                                                                         *)
(* Scores are exact rationals, kept as integers in units of 1/Scale.       *)
(* Scale is a common multiple of every denominator the scorer can          *)
(* produce: k + rank, the hit count, the keyword count, the token count    *)
(* of a keyword, and the decimal weights (tenths and twentieths).          *)
(***************************************************************************)
RECURSIVE Gcd(_, _)
Gcd(a, b) == IF b = 0 THEN a ELSE Gcd(b, a % b)
Lcm(a, b) == (a \div Gcd(a, b)) * b
RECURSIVE LcmRange(_, _)
LcmRange(lo, hi) == IF lo > hi THEN 1 ELSE Lcm(lo, LcmRange(lo + 1, hi))

RRF_k == 60
FuzzyThreshold == 85
Scale == LcmRange(RRF_k + 1, RRF_k + MaxChunks) * LcmRange(1, MaxChunks) * 20 * 12

TemporalStrategy == {"disabled", "interaction", "weighted", "strict"}

\* RRFConfig with its defaults; the weights 0.3, 0.2, 0.3, 0.5, 0.15 as
\* fractions
RRFConfig(temporal_strategy) ==
    [k |-> RRF_k,
     agreement_boost |-> <<3, 10>>,
     query_overlap_weight |-> <<2, 10>>,
     min_overlap_threshold |-> <<3, 10>>,
     fuzzy_threshold |-> FuzzyThreshold,
     min_token_coverage |-> <<1, 2>>,
     temporal_weight |-> <<3, 20>>,
     temporal_strategy |-> temporal_strategy]

\* x * w for a score x and a weight w = <<numerator, denominator>>
Times(x, w) == (x \div w[2]) * w[1]
\* the weight w as a score
Frac(w) == Times(Scale, w)

\* str.lower() on the symbols of the model
LowerSym(c) == CASE c = "Climate" -> "climate" [] c = "A" -> "a" [] OTHER -> c
Lower(s) == [i \in 1..Len(s) |-> LowerSym(s[i])]

\* str.split(): the maximal runs of non-whitespace symbols
RECURSIVE SplitFrom(_, _, _)
SplitFrom(s, i, word) ==
    IF i > Len(s) THEN (IF word = << >> THEN << >> ELSE <<word>>)
    ELSE IF s[i] \in Whitespace
    THEN (IF word = << >> THEN << >> ELSE <<word>>) \o SplitFrom(s, i + 1, << >>)
    ELSE SplitFrom(s, i + 1, Append(word, s[i]))
Split(s) == SplitFrom(s, 1, << >>)

\* rapidfuzz.fuzz.ratio on the words of the model: the normalized indel
\* similarity, 100 for equal words, 92 for climate/climat, 83 for
\* policy/police, 0 for words with nothing in common
FuzzRatio(a, b) ==
    IF a = b THEN 100
    ELSE IF {a, b} = {<<"climate">>, <<"climat">>} THEN 92
    ELSE IF {a, b} = {<<"policy">>, <<"police">>} THEN 83
    ELSE 0

\* _get_cached_context: (text, text.split())
RECURSIVE LowerContents(_)
LowerContents(chunks) ==
    IF chunks = << >> THEN << >>
    ELSE <<Lower(Head(chunks).content)>> \o LowerContents(Tail(chunks))
DocText(doc) == Join(<<" ">>, LowerContents(doc.chunks))
DocWords(doc) == Split(DocText(doc))

SearchTypes(chunks) == {chunks[i].search_type : i \in 1..Len(chunks)}
CountType(chunks, t) == Cardinality({i \in 1..Len(chunks) : chunks[i].search_type = t})

RECURSIVE SumSet(_, _)
SumSet(S, f) ==
    IF S = {} THEN 0
    ELSE LET x == CHOOSE y \in S : TRUE IN f[x] + SumSet(S \ {x}, f)

\* the ranks of one search type are 1..n whatever the order sorted() gives
\* to its hits, so the partition contributes the sum of 1/(k + rank)
RECURSIVE RankSum(_, _)
RankSum(k, n) == IF n = 0 THEN 0 ELSE Scale \div (k + n) + RankSum(k, n - 1)

\* a variant that ranks all hits in one list, whatever their search type
BaseRrfOneList(config, doc) == RankSum(config.k, Len(doc.chunks))

_base_rrf(config, doc) ==
    IF doc.chunks = << >> THEN 0
    ELSE LET types == SearchTypes(doc.chunks)
         IN SumSet(types, [t \in types |-> RankSum(config.k, CountType(doc.chunks, t))])

\* f"{page_number}_{chunk_number}"
Signature(chunk) == <<chunk.metadata.page_number, chunk.metadata.chunk_number>>

\* a bonus that counts every signature, under one search type or more
AgreementIgnoringTypes(config, doc) ==
    IF doc.chunks = << >> THEN 0
    ELSE LET n == Len(doc.chunks)
             sigs == {Signature(doc.chunks[i]) : i \in 1..n}
         IN Times((Scale * Cardinality(sigs)) \div n, config.agreement_boost)

_agreement_bonus(config, doc) ==
    IF doc.chunks = << >> THEN 0
    ELSE LET n == Len(doc.chunks)
             sigs == {Signature(doc.chunks[i]) : i \in 1..n}
             typesOf(sig) == {doc.chunks[i].search_type :
                                i \in {j \in 1..n : Signature(doc.chunks[j]) = sig}}
             cross_method_count == Cardinality({sig \in sigs : Cardinality(typesOf(sig)) > 1})
             agreement_ratio == (Scale * cross_method_count) \div n
         IN Times(agreement_ratio, config.agreement_boost)

FuzzyHit(config, token, doc_words) ==
    \E i \in 1..Len(doc_words) : FuzzRatio(token, doc_words[i]) >= config.fuzzy_threshold

_keyword_match_score(config, keyword, doc_words) ==
    LET tokens == Split(keyword)
    IN IF tokens = << >> THEN 0
       ELSE IF Len(tokens) = 1
       THEN (IF FuzzyHit(config, keyword, doc_words) THEN Scale ELSE 0)
       ELSE LET matched == Cardinality({i \in 1..Len(tokens) :
                                          FuzzyHit(config, tokens[i], doc_words)})
                coverage == (Scale \div Len(tokens)) * matched
            IN IF coverage >= Frac(config.min_token_coverage) THEN coverage ELSE 0

RECURSIVE MatchScores(_, _, _)
MatchScores(config, keywords, doc_words) ==
    IF keywords = << >> THEN << >>
    ELSE <<_keyword_match_score(config, Lower(Head(keywords)), doc_words)>>
         \o MatchScores(config, Tail(keywords), doc_words)

RECURSIVE SumSeq(_)
SumSeq(xs) == IF xs = << >> THEN 0 ELSE Head(xs) + SumSeq(Tail(xs))

_query_overlap_cached(config, doc_words, keywords) ==
    IF keywords = << >> THEN 0
    ELSE LET total_score == SumSeq(MatchScores(config, keywords, doc_words))
             overlap_ratio == total_score \div Len(keywords)
         IN IF overlap_ratio < Frac(config.min_overlap_threshold) THEN 0
            ELSE Times(overlap_ratio, config.query_overlap_weight)

\* a match of r'\b(19|20)\d{2}\b' starts at position i of text
IsWordSym(c) == c \notin Whitespace \union {".", ",", "-"}
YearAt(text, i) ==
    /\ i + 3 <= Len(text)
    /\ SubSeq(text, i, i + 1) \in {<<"1", "9">>, <<"2", "0">>}
    /\ text[i + 2] \in Digit /\ text[i + 3] \in Digit
    /\ (i = 1 \/ ~IsWordSym(text[i - 1]))
    /\ (i + 3 = Len(text) \/ ~IsWordSym(text[i + 4]))

\* set(self._year_regex.findall(doc_text)): with one group in the pattern,
\* findall returns the text of the group, the century
DocYears(doc_text) ==
    {SubSeq(doc_text, i, i + 1) : i \in {j \in 1..Len(doc_text) : YearAt(doc_text, j)}}

\* self._year_regex.fullmatch(kw.strip())
IsYearKeyword(kw) == Len(Strip(kw)) = 4 /\ YearAt(Strip(kw), 1)

_split_temporal_keywords(keywords) ==
    LET temporal == SelectSeq(keywords, IsYearKeyword)
        InTemporal(kw) == \E i \in 1..Len(temporal) : temporal[i] = kw
        NotTemporal(kw) == ~InTemporal(kw)
    IN <<temporal, SelectSeq(keywords, NotTemporal)>>

_apply_temporal_strategy(config, non_temporal_kws, doc_words) ==
    LET scores == MatchScores(config, non_temporal_kws, doc_words)
        strategy == config.temporal_strategy
    IN CASE strategy = "interaction" ->
              Times(SumSeq(scores) \div Len(scores), config.temporal_weight)
         [] strategy = "weighted" ->
              (IF \E i \in 1..Len(scores) : scores[i] > 0
               THEN Frac(config.temporal_weight) ELSE 0)
         [] strategy = "strict" ->
              (IF \A i \in 1..Len(scores) : scores[i] >= Scale \div 2
               THEN Frac(config.temporal_weight) ELSE 0)
         [] OTHER -> 0

_temporal_bonus(config, doc_text, doc_words, keywords) ==
    IF keywords = << >> THEN 0
    ELSE LET split == _split_temporal_keywords(keywords)
             temporal_kws == split[1]
             non_temporal_kws == split[2]
             doc_years == DocYears(doc_text)
             has_temporal_match ==
                 \E i \in 1..Len(temporal_kws) : temporal_kws[i] \in doc_years
         IN IF temporal_kws = << >> THEN 0
            ELSE IF config.temporal_strategy = "disabled" THEN 0
            ELSE IF non_temporal_kws = << >> THEN 0
            ELSE IF ~has_temporal_match THEN 0
            ELSE _apply_temporal_strategy(config, non_temporal_kws, doc_words)

\* the debug_info of one document and its final_score
\* a scorer that grants the whole overlap weight whatever the keywords are
ScoreWithFlatOverlap(config, doc, query_keywords) ==
    LET base == _base_rrf(config, doc)
        agreement == _agreement_bonus(config, doc)
        overlap == Frac(config.query_overlap_weight)
    IN [doc |-> doc, final_score |-> base + agreement + overlap,
        base_rrf |-> base, agreement |-> agreement, overlap |-> overlap,
        temporal |-> 0]

ScoreOf(config, doc, query_keywords) ==
    LET doc_text == DocText(doc)
        doc_words == DocWords(doc)
        base == _base_rrf(config, doc)
        agreement == _agreement_bonus(config, doc)
        overlap == IF Truthy(query_keywords)
                   THEN _query_overlap_cached(config, doc_words, query_keywords) ELSE 0
        temporal == IF Truthy(query_keywords)
                    THEN _temporal_bonus(config, doc_text, doc_words, query_keywords) ELSE 0
    IN [doc |-> doc, final_score |-> base + agreement + overlap + temporal,
        base_rrf |-> base, agreement |-> agreement, overlap |-> overlap,
        temporal |-> temporal]

\* a sort that is not stable: an entry goes in front of the entries already
\* placed that have its score
RECURSIVE InsertScoredUnstable(_, _)
InsertScoredUnstable(e, placed) ==
    IF placed = << >> THEN <<e>>
    ELSE IF Head(placed).final_score > e.final_score
    THEN <<Head(placed)>> \o InsertScoredUnstable(e, Tail(placed))
    ELSE <<e>> \o placed

\* sorted(scored, key=final_score, reverse=True): a stable sort, an entry
\* goes behind every entry already placed whose score is not smaller
RECURSIVE InsertScored(_, _)
InsertScored(e, placed) ==
    IF placed = << >> THEN <<e>>
    ELSE IF Head(placed).final_score >= e.final_score
    THEN <<Head(placed)>> \o InsertScored(e, Tail(placed))
    ELSE <<e>> \o placed

RECURSIVE SortedDescFrom(_, _)
SortedDescFrom(entries, placed) ==
    IF entries = << >> THEN placed
    ELSE SortedDescFrom(Tail(entries), InsertScored(Head(entries), placed))

\* the list scored of score_documents before it is sorted: one entry per
\* document, in input order
ScoredList(config, docs, kws) ==
    [i \in 1..Len(docs) |-> ScoreOf(config, docs[i], kws)]

\* sorted(scored, key=lambda x: x[1], reverse=True)
SortedScored(entries) == SortedDescFrom(entries, << >>)

score_documents(config, docs, kws) == SortedScored(ScoredList(config, docs, kws))

\* [doc for doc, _, _ in scored[:top_n]]
TopDocs(sorted, n) == [i \in 1..Min2(n, Len(sorted)) |-> sorted[i].doc]

rank_documents(docs, n, kws, config) == TopDocs(score_documents(config, docs, kws), n)

(***************************************************************************)
(* elastic_retrive_node/utils.py                                           *)
(***************************************************************************)
\* re.sub(r'_page_\\d+', '', uri): in this raw string the pattern is
\* "_page_", a literal backslash, and one or more letters d
RECURSIVE SkipLetterD(_, _)
SkipLetterD(s, i) == IF i <= Len(s) /\ s[i] = "d" THEN SkipLetterD(s, i + 1) ELSE i

RECURSIVE SubPageBackslashD(_, _)
SubPageBackslashD(s, i) ==
    IF i > Len(s) THEN << >>
    ELSE IF /\ s[i] = "_page_"
            /\ i + 2 <= Len(s)
            /\ s[i + 1] = "\\"
            /\ s[i + 2] = "d"
    THEN SubPageBackslashD(s, SkipLetterD(s, i + 2))
    ELSE <<s[i]>> \o SubPageBackslashD(s, i + 1)

\* next((re.sub(...) for c in chunks if c.metadata.gcs_uri), None)
RECURSIVE candidate_pdf_gcs_uri(_)
candidate_pdf_gcs_uri(chunks) ==
    IF chunks = << >> THEN None
    ELSE IF Truthy(Head(chunks).metadata.gcs_uri)
    THEN SubPageBackslashD(Head(chunks).metadata.gcs_uri, 1)
    ELSE candidate_pdf_gcs_uri(Tail(chunks))

\* SearchConfig (indices, max_concurrent); results_per_index and min_score
\* only shape the query sent to the backend
DefaultMaxConcurrent == 6

SearchConfig(indices, max_concurrent) ==
    [indices |-> indices, max_concurrent |-> max_concurrent]

\* f"semantic_{field}"
SemanticType(field) == "semantic_" \o field

\* a coroutine _search_task(es, index, query, search_type, size) that has not
\* been awaited yet: pc is where it stands, attempts the calls of
\* self._es.search made so far, last the outcome of the latest call, err the
\* exception it ended with
SearchTask(index, search_type) ==
    [index |-> index, search_type |-> search_type, pc |-> "waiting",
     attempts |-> 0, last |-> "none", err |-> "none"]

\* the tasks list of search_multi_index: a lexical task per index when there
\* are keywords, then a vector task per index and vector field
LexicalTasks(keywords, indices) ==
    IF Len(keywords) > 0
    THEN [i \in 1..Len(indices) |-> SearchTask(indices[i], "lexical")]
    ELSE << >>

VectorTasks(vector_fields, indices) ==
    LET f == Len(vector_fields)
    IN [k \in 1..(Len(indices) * f) |->
           SearchTask(indices[((k - 1) \div f) + 1],
                      SemanticType(vector_fields[((k - 1) % f) + 1]))]

TaskList(keywords, vector_fields, indices) ==
    LexicalTasks(keywords, indices) \o VectorTasks(vector_fields, indices)

\* the hits the backend holds, as response["hits"]["hits"]; _source carries
\* the fields the queries ask for
EsHit(content, pdf_name, gcs_uri, score) ==
    [content |-> content, pdf_name |-> pdf_name, gcs_uri |-> gcs_uri,
     score |-> score]

EsHits(index, search_type) ==
    IF index = "idx1" /\ search_type = "lexical"
    THEN <<EsHit(<<"Climate", " ", "2", "0", "2", "1">>, "docA",
                 <<"x", "_page_", "1", "2", ".", "pdf">>, 2),
           EsHit(<<"police">>, "docB", None, 1)>>
    ELSE IF index = "idx1"
    THEN <<EsHit(<<"climat", " ", "policy">>, "docA", None, 2),
           EsHit(<<"a", "b">>, "docC", None, 1)>>
    ELSE IF index = "idx2" /\ search_type = "lexical"
    THEN <<EsHit(<<"a", "b", "c", "d", "e">>, "docD", None, 1)>>
    ELSE IF index = "idx2"
    THEN <<EsHit(<<"climate">>, "docB", None, 1)>>
    ELSE << >>

\* _search_task: the SearchResult list made of a response; only pdf_name and
\* gcs_uri of the metadata come back
SearchTaskOutput(index, search_type) ==
    LET hits == EsHits(index, search_type)
    IN [i \in 1..Len(hits) |->
           [content |-> hits[i].content,
            metadata |-> [pdf_name |-> hits[i].pdf_name, page_number |-> NoneInt,
                          chunk_number |-> NoneInt, gcs_uri |-> hits[i].gcs_uri],
            score |-> hits[i].score,
            source_index |-> index,
            search_type |-> search_type]]

\* the outcomes of one call self._es.search(...): a response, or one of the
\* elasticsearch exceptions (ApiError stands for every exception that is
\* neither a ConnectionError nor a RequestError, a 503 among them)
BackendOutcomes == {"ok", "ConnectionError", "RequestError", "ApiError"}

\* a decorator that retries on every exception
RetryOnAny == BackendOutcomes \ {"ok"}

\* ESClient.search: @retry(retry=retry_if_exception_type((ConnectionError,
\* RequestError)), stop=stop_after_attempt(3))
RetryOn == {"ConnectionError", "RequestError"}
MaxAttempts == 3

\* what the retry decorator does with the outcome of the attempts-th call
AfterAttempt(attempts, outcome) ==
    IF outcome = "ok" THEN "return"
    ELSE IF outcome \notin RetryOn THEN "raise"
    ELSE IF attempts >= MaxAttempts THEN "RetryError"
    ELSE "wait"

\* a task after its backend call came back with outcome
TaskAfter(task, outcome) ==
    LET what == AfterAttempt(task.attempts, outcome)
    IN IF what = "return" THEN [task EXCEPT !.pc = "done", !.last = outcome]
       ELSE IF what = "wait" THEN [task EXCEPT !.pc = "backoff", !.last = outcome]
       ELSE IF what = "raise"
       THEN [task EXCEPT !.pc = "failed", !.last = outcome, !.err = outcome]
       ELSE [task EXCEPT !.pc = "failed", !.last = outcome, !.err = "RetryError"]

TaskFinished(task) == task.pc \in {"done", "failed"}

\* a permit that comes back only when the task returned a result
ExitsOnSuccessOnly(task) == task.pc = "done"

\* bounded(task): "async with semaphore" is left, and the permit released,
\* when "await task" returns and when it raises
ExitsAsyncWith(task) == TaskFinished(task)

\* an admission that never blocks
CanAcquireUnbounded(sem_value) == TRUE

\* asyncio.Semaphore.acquire goes through only while the counter is positive
CanAcquire(sem_value) == sem_value > 0

\* a gather that returns at the first exception of a task
GatherReadyFailFast(task_list) ==
    \/ \E t \in 1..Len(task_list) : task_list[t].pc = "failed"
    \/ \A t \in 1..Len(task_list) : TaskFinished(task_list[t])

\* asyncio.gather(..., return_exceptions=True) returns when every task has
\* finished, whatever the way
GatherReady(task_list) == \A t \in 1..Len(task_list) : TaskFinished(task_list[t])

\* results of the gather: per task its SearchResult list or its exception
GatherResults(task_list) ==
    [t \in 1..Len(task_list) |->
        IF task_list[t].pc = "done"
        THEN [exc |-> "none",
              value |-> SearchTaskOutput(task_list[t].index, task_list[t].search_type)]
        ELSE [exc |-> task_list[t].err, value |-> << >>]]

\* chunks = [chunk for result in results if not isinstance(result, Exception)
\*           for chunk in result]
RECURSIVE FlattenResults(_)
FlattenResults(rs) ==
    IF rs = << >> THEN << >>
    ELSE IF Head(rs).exc # "none" THEN FlattenResults(Tail(rs))
    ELSE Head(rs).value \o FlattenResults(Tail(rs))

(***************************************************************************)
(* State                                                                   *)
(***************************************************************************)
VARIABLES
    candidates,       \* extraction: the DocumentCandidate list handed in
    max_tokens,       \* extraction: the token budget of the call
    initial_padding,  \* extraction: the first padding tried
    xpc,              \* extraction: "ready", "extracted" or "posted"
    results,          \* extraction: what extract_context_delta produced
    rsp_docs,         \* extraction: the "documents" of AsyncPostRetriever.exec_async
    documents,        \* ranking: the DocumentCandidate list handed in
    top_n,            \* ranking: how many candidates to return
    query_keywords,   \* ranking: the keywords, None when the caller gives none
    rank_config,      \* ranking: the RRFConfig
    rpc,              \* ranking: "ready" or "ranked"
    scored,           \* ranking: the entries score_documents made, in input order
    ranked,           \* ranking: what rank_documents returned
    keywords,         \* search: the keywords, << >> when None or empty
    vector_fields,    \* search: the keys of the vectors dict
    config,           \* search: the SearchConfig
    spc,              \* search: "ready", "gathering", "returned" or "raised"
    tasks,            \* search: the task list, each task with its position
    semaphore,        \* search: the counter of the admission semaphore
    search_out,       \* search: what search_multi_index produced
    prep_res,         \* pipeline: the keywords, indices and vector of the call
    ppc,              \* pipeline: where RetriveNode.exec_async stands
    raised,           \* pipeline: the exception that left the "async with" block
    main_client,      \* pipeline: the ESClient of exec_async
    fetches,          \* pipeline: the build_candidate coroutines, one per group
    agg_out,          \* pipeline: what aggregate_to_documents produced
    top_docs,         \* pipeline: what rank_documents returned to exec_async
    exec_out,         \* pipeline: what exec_async gave its caller
    fcontent,         \* formatting: the content handed to format_page_tags
    fpc,              \* formatting: "ready", "formatted" or "reformatted"
    formatted,        \* formatting: format_page_tags(content)
    reformatted,      \* formatting: format_page_tags(formatted)
    b_content,        \* pages: the content handed to _build_context
    b_page_nums,      \* pages: the hit pages handed to _build_context
    b_padding,        \* pages: the padding handed to _build_context
    b_out,            \* pages: the ranges, merged ranges, parts and context made
    m_ranges,         \* pages: the ranges handed to _merge_ranges
    m_out,            \* pages: what _merge_ranges returned
    bpc,              \* pages: "build", "merge", "built" or "merged"
    recent_message_count,   \* history: how many recent messages stay verbatim
    compression_threshold,  \* history: the length above which compression starts
    full_history,           \* history: the messages, numbered in order of arrival
    compressed_summaries,   \* history: per summary, the messages it was made from
    hpc                     \* history: "idle" or "ready"

extractVars == <<candidates, max_tokens, initial_padding, xpc, results, rsp_docs>>
rankVars == <<documents, top_n, query_keywords, rank_config, rpc, scored, ranked>>

searchVars == <<keywords, vector_fields, config, spc, tasks, semaphore, search_out>>

pipeVars == <<prep_res, ppc, raised, main_client, fetches, agg_out, top_docs, exec_out>>

formatVars == <<fcontent, fpc, formatted, reformatted>>

pagesVars == <<b_content, b_page_nums, b_padding, b_out, m_ranges, m_out, bpc>>

historyVars == <<recent_message_count, compression_threshold, full_history,
                 compressed_summaries, hpc>>

vars == <<extractVars, rankVars, searchVars, pipeVars, formatVars, pagesVars, historyVars>>

NoResult == [exc |-> "not_called", value |-> << >>]

(***************************************************************************)
(* Inputs of the context extraction                                        *)
(***************************************************************************)
DocIds == <<"docA", "docB", "docC", "docD">>

Metadata(pdf_name, page_number, chunk_number, gcs_uri) ==
    [pdf_name |-> pdf_name, page_number |-> page_number,
     chunk_number |-> chunk_number, gcs_uri |-> gcs_uri]

SearchResult(content, metadata, score, source_index, search_type) ==
    [content |-> content, metadata |-> metadata, score |-> score,
     source_index |-> source_index, search_type |-> search_type]

DocumentCandidate(document_id, chunks, full_content, pdf_gcs_uri) ==
    [document_id |-> document_id, chunks |-> chunks,
     full_content |-> full_content, pdf_gcs_uri |-> pdf_gcs_uri]

UriWithPage == <<"x", "_page_", "1", "2", ".", "pdf">>
UriTwoPages == <<"x", "_page_", "1", "_page_", "2", ".", "pdf">>
UriNoPage == <<"y", ".", "pdf">>

\* the gcs_uri that the hits of one document carry, when they carry one
HitUri(document_id) ==
    IF document_id = "docA" THEN UriWithPage
    ELSE IF document_id = "docB" THEN UriTwoPages
    ELSE UriNoPage

\* the hits of the extraction inputs, before they get a document id:
\* <<content, page_number, gcs_uri>>
ExtractHitShapes ==
    {<< <<"a", "b">>, NoneInt, None >>,
     << <<"a", "b", "c", "d", "e">>, 2, UriWithPage >>}

PagedContent ==
    <<"page_", "1", "\n", "a", "b", " ", "page_", "2", "\n", "c", "d", "e", "f", " ",
      "page_", "3", "\n", "g">>

ExtractContents == {None, <<"a", "b", "c", "d", "e", "f", "g">>, PagedContent}

SeqsUpTo(S, n) == UNION {[1..k -> S] : k \in 0..n}

\* hit lists without repetition: a search returns a chunk once
DistinctSeqs(S, n) ==
    {q \in SeqsUpTo(S, n) : \A i, j \in 1..Len(q) : i # j => q[i] # q[j]}

\* <<hit shapes, full_content>>
ExtractShapes == DistinctSeqs(ExtractHitShapes, MaxChunks) \X ExtractContents

ExtractCandidate(document_id, shape) ==
    LET chunks == [i \in 1..Len(shape[1]) |->
                      SearchResult(shape[1][i][1],
                                   Metadata(document_id, shape[1][i][2], NoneInt,
                                            IF shape[1][i][3] = None THEN None
                                            ELSE HitUri(document_id)),
                                   1, "idx1", "lexical")]
    IN DocumentCandidate(document_id, chunks, shape[2], candidate_pdf_gcs_uri(chunks))

\* candidate lists with pairwise distinct document ids and the pdf_gcs_uri
\* of the first hit that has one, as the aggregator builds them
CandidateLists ==
    UNION {{[i \in 1..n |-> ExtractCandidate(DocIds[i], f[i])] :
              f \in [1..n -> ExtractShapes]} : n \in 0..MaxDocs}

ExtractIdle ==
    /\ candidates = << >>
    /\ max_tokens = 0
    /\ initial_padding = 0
    /\ xpc = "idle"
    /\ results = NoResult
    /\ rsp_docs = << >>

ExtractInit ==
    /\ candidates \in CandidateLists
    /\ max_tokens \in {1, 4, 40}
    /\ initial_padding \in {0, DefaultInitialPadding}
    /\ xpc = "ready"
    /\ results = NoResult
    /\ rsp_docs = << >>

\* a direct call extract_context_delta(candidates, max_tokens, initial_padding)
CallExtractContextDelta ==
    /\ xpc = "ready"
    /\ results' = extract_context_delta(candidates, max_tokens, initial_padding)
    /\ xpc' = "extracted"
    /\ UNCHANGED <<candidates, max_tokens, initial_padding, rsp_docs>>
    /\ UNCHANGED <<rankVars, searchVars, pipeVars, formatVars, pagesVars, historyVars>>

\* AsyncPostRetriever.exec_async(candidates)
PostRetrieverExec ==
    /\ xpc = "ready"
    /\ rsp_docs' = AsyncPostRetriever_exec_async(candidates)
    /\ xpc' = "posted"
    /\ UNCHANGED <<candidates, max_tokens, initial_padding, results>>
    /\ UNCHANGED <<rankVars, searchVars, pipeVars, formatVars, pagesVars, historyVars>>

ExtractNext == CallExtractContextDelta \/ PostRetrieverExec

(***************************************************************************)
(* Inputs of the ranking                                                   *)
(***************************************************************************)
RankHits(document_id) ==
    {SearchResult(<<"Climate", " ", "2", "0", "2", "1">>,
                  Metadata(document_id, 5, 2, None), 2, "idx1", "lexical"),
     SearchResult(<<"climat", " ", "policy">>,
                  Metadata(document_id, 5, 2, None), 1, "idx1", "semantic_vector_field"),
     SearchResult(<<"police", " ", "2", "0", "2", "1">>,
                  Metadata(document_id, NoneInt, NoneInt, None), 1, "idx2", "lexical")}

RankCandidates(document_id) ==
    {DocumentCandidate(document_id, ch, None, None) :
        ch \in DistinctSeqs(RankHits(document_id), MaxChunks)}

RankLists ==
    UNION {{ds \in [1..n -> UNION {RankCandidates(DocIds[j]) : j \in 1..n}] :
              \A i \in 1..n : ds[i].document_id = DocIds[i]} : n \in 0..MaxDocs}

KeywordLists ==
    {None, << >>,
     << <<"climate">>, <<"2", "0", "2", "1">> >>,
     << <<"climate", " ", "policy">>, <<"police">>, <<"2", "0", "2", "1">> >>}

\* the (query_keywords, temporal_strategy) pairs of a call; query_keywords
\* is None when the caller leaves it out
RankCalls == KeywordLists \X TemporalStrategy

RankIdle ==
    /\ documents = << >>
    /\ top_n = 0
    /\ query_keywords = << >>
    /\ rank_config = RRFConfig("interaction")
    /\ rpc = "idle"
    /\ scored = << >>
    /\ ranked = << >>

RankInit ==
    /\ documents \in RankLists
    /\ top_n \in {1, 3}
    /\ \E call \in RankCalls :
          /\ query_keywords = call[1]
          /\ rank_config = RRFConfig(call[2])
    /\ rpc = "ready"
    /\ scored = << >>
    /\ ranked = << >>

\* rank_documents(documents, top_n, query_keywords, config)
RankDocuments ==
    /\ rpc = "ready"
    /\ scored' = ScoredList(rank_config, documents, query_keywords)
    /\ ranked' = TopDocs(SortedScored(scored'), top_n)
    /\ rpc' = "ranked"
    /\ UNCHANGED <<documents, top_n, query_keywords, rank_config>>
    /\ UNCHANGED <<extractVars, searchVars, pipeVars, formatVars, pagesVars, historyVars>>

RankNext == RankDocuments

(***************************************************************************)
(* search_multi_index                                                      *)
(***************************************************************************)
\* config.indices: a list of index names, or None.  Two indices give up to
\* four tasks (a lexical and a vector task each), enough for tasks to wait
\* behind a semaphore of one or two and for one index to fail while the
\* other answers.
IndexLists == {None, << >>, <<"idx1">>, <<"idx1", "idx2">>}

SearchIdle ==
    /\ keywords = << >>
    /\ vector_fields = << >>
    /\ config = SearchConfig(<< >>, DefaultMaxConcurrent)
    /\ spc = "idle"
    /\ tasks = << >>
    /\ semaphore = 0
    /\ search_out = NoResult

SearchInit ==
    /\ keywords \in {<< >>, << <<"climate">>, <<"2", "0", "2", "1">> >>}
    /\ vector_fields \in {<< >>, <<"vector_field">>}
    /\ config \in {SearchConfig(ix, mc) :
                      ix \in IndexLists, mc \in {1, 2, DefaultMaxConcurrent}}
    /\ spc = "ready"
    /\ tasks = << >>
    /\ semaphore = 0
    /\ search_out = NoResult

\* search_multi_index up to the gather: the task list and the semaphore;
\* iterating indices = None raises TypeError
SearchMultiIndexStart ==
    /\ spc = "ready"
    /\ IF config.indices = None
       THEN /\ spc' = "raised"
            /\ search_out' = [exc |-> "TypeError", value |-> << >>]
            /\ UNCHANGED <<tasks, semaphore>>
       ELSE /\ spc' = "gathering"
            /\ tasks' = TaskList(keywords, vector_fields, config.indices)
            /\ semaphore' = config.max_concurrent
            /\ UNCHANGED search_out
    /\ UNCHANGED <<keywords, vector_fields, config>>
    /\ UNCHANGED <<extractVars, rankVars, pipeVars, formatVars, pagesVars, historyVars>>

\* bounded(task): "async with semaphore", then the first backend call.  The
\* gathered coroutines start in list order and the semaphore wakes its
\* waiters first-in first-out, so tasks are admitted in list order.
Acquire(t) ==
    /\ spc = "gathering"
    /\ tasks[t].pc = "waiting"
    /\ \A u \in 1..(t - 1) : tasks[u].pc # "waiting"
    /\ CanAcquire(semaphore)
    /\ semaphore' = semaphore - 1
    /\ tasks' = [tasks EXCEPT ![t].pc = "calling", ![t].attempts = 1]
    /\ UNCHANGED <<keywords, vector_fields, config, spc, search_out>>
    /\ UNCHANGED <<extractVars, rankVars, pipeVars, formatVars, pagesVars, historyVars>>

\* the backend call of task t comes back; a task that ends leaves the
\* "async with" and gives its permit back
BackendResponds(t, outcome) ==
    /\ spc = "gathering"
    /\ tasks[t].pc = "calling"
    /\ tasks' = [tasks EXCEPT ![t] = TaskAfter(tasks[t], outcome)]
    /\ semaphore' = IF ExitsAsyncWith(tasks'[t]) THEN semaphore + 1 ELSE semaphore
    /\ UNCHANGED <<keywords, vector_fields, config, spc, search_out>>
    /\ UNCHANGED <<extractVars, rankVars, pipeVars, formatVars, pagesVars, historyVars>>

\* wait_exponential is over: the next call of self._es.search
BackoffElapsed(t) ==
    /\ spc = "gathering"
    /\ tasks[t].pc = "backoff"
    /\ tasks' = [tasks EXCEPT ![t].pc = "calling",
                              ![t].attempts = tasks[t].attempts + 1]
    /\ UNCHANGED <<keywords, vector_fields, config, spc, semaphore, search_out>>
    /\ UNCHANGED <<extractVars, rankVars, pipeVars, formatVars, pagesVars, historyVars>>

\* the gather returns; exceptions are filtered out and the rest flattened
GatherReturn ==
    /\ spc = "gathering"
    /\ GatherReady(tasks)
    /\ search_out' = [exc |-> "none", value |-> FlattenResults(GatherResults(tasks))]
    /\ spc' = "returned"
    /\ UNCHANGED <<keywords, vector_fields, config, tasks, semaphore>>
    /\ UNCHANGED <<extractVars, rankVars, pipeVars, formatVars, pagesVars, historyVars>>

SearchNext ==
    \/ SearchMultiIndexStart
    \/ \E t \in 1..Len(tasks) : Acquire(t)
    \/ \E t \in 1..Len(tasks), outcome \in BackendOutcomes : BackendResponds(t, outcome)
    \/ \E t \in 1..Len(tasks) : BackoffElapsed(t)
    \/ GatherReturn

(***************************************************************************)
(* RetriveNode.exec_async                                                  *)
(***************************************************************************)
PipelineMaxConcurrent == 6
PipelineTopN == 3

\* the pdf_names of the chunks, each once, in the order of first appearance:
\* the keys of the groups dict of aggregate_to_documents
RECURSIVE GroupNames(_, _)
GroupNames(chunks, seen) ==
    IF chunks = << >> THEN << >>
    ELSE IF Head(chunks).metadata.pdf_name \in seen
    THEN GroupNames(Tail(chunks), seen)
    ELSE <<Head(chunks).metadata.pdf_name>>
             \o GroupNames(Tail(chunks), seen \cup {Head(chunks).metadata.pdf_name})

\* a grouping that puts every chunk into every group
EveryChunk(chunks, pdf_name) == chunks

GroupChunks(chunks, pdf_name) ==
    LET OfGroup(c) == c.metadata.pdf_name = pdf_name
    IN SelectSeq(chunks, OfGroup)

\* metadata.all_md_pages of the first hit the backend returns for pdf_name,
\* None when there is no hit or the hit has no such field
EsAllMdPages(pdf_name) ==
    IF pdf_name = "docA" THEN PagedContent
    ELSE IF pdf_name = "docC" THEN <<"a", "b", "c", "d", "e", "f", "g">>
    ELSE None

\* a coroutine build_candidate(pdf_name, chunks) that has not run yet; client
\* is the state of the ESClient that get_full_content makes
BuildCandidate(pdf_name, chunks) ==
    [pdf_name |-> pdf_name, chunks |-> chunks, pc |-> "start",
     client |-> "none", full_content |-> None, err |-> "none"]

Coros(chunks) ==
    LET names == GroupNames(chunks, {})
    IN [g \in 1..Len(names) |-> BuildCandidate(names[g], GroupChunks(chunks, names[g]))]

\* the DocumentCandidate a finished build_candidate returns
BuiltCandidate(fetch) ==
    DocumentCandidate(fetch.pdf_name, fetch.chunks, fetch.full_content,
                      candidate_pdf_gcs_uri(fetch.chunks))

\* ESClient.__aenter__: the outcomes of self._es.ping()
PingOutcomes == {"ok", "false", "raises"}

\* the exception __aenter__ lets through
AenterError(ping) == IF ping = "false" THEN "ConnectionError" ELSE "TransportError"

\* the outcomes of ESClient.search as a whole, retries included
SearchOutcomes == {"ok", "RetryError", "ApiError"}

\* an except clause that lets the exception through
ExceptHandlerReraise(e) == [exc |-> e, value |-> << >>]

\* except Exception as e: ... return []
ExceptHandler(e) == [exc |-> "none", value |-> << >>]

\* the keys of vectors={"vector_field": vector}: the dict has the key
\* whatever the vector is, None included
ExecVectorFields(vector) == <<"vector_field">>

PipeIdle ==
    /\ prep_res = [keywords |-> << >>, indices |-> << >>, vector |-> None]
    /\ ppc = "idle"
    /\ raised = "none"
    /\ main_client = "none"
    /\ fetches = << >>
    /\ agg_out = NoResult
    /\ top_docs = << >>
    /\ exec_out = NoResult

PipeInit ==
    /\ prep_res \in {[keywords |-> kw, indices |-> ix, vector |-> vec] :
                        kw \in {<< >>, << <<"climate">>, <<"2", "0", "2", "1">> >>},
                        ix \in IndexLists,
                        vec \in {None, <<"0.1">>}}
    /\ ppc = "ready"
    /\ raised = "none"
    /\ main_client = "none"
    /\ fetches = << >>
    /\ agg_out = NoResult
    /\ top_docs = << >>
    /\ exec_out = NoResult

\* exec_async up to the search: ESClient(...) is made and __aenter__ pings;
\* when the ping fails the "async with" block is never entered
MainAenter(ping) ==
    /\ ppc = "ready"
    /\ IF ping = "ok"
       THEN /\ main_client' = "open"
            /\ ppc' = "searching"
            /\ keywords' = prep_res.keywords
            /\ vector_fields' = ExecVectorFields(prep_res.vector)
            /\ config' = SearchConfig(prep_res.indices, PipelineMaxConcurrent)
            /\ spc' = "ready"
            /\ UNCHANGED raised
       ELSE /\ main_client' = "created"
            /\ ppc' = "except"
            /\ raised' = AenterError(ping)
            /\ UNCHANGED <<keywords, vector_fields, config, spc>>
    /\ UNCHANGED <<tasks, semaphore, search_out>>
    /\ UNCHANGED <<prep_res, fetches, agg_out, top_docs, exec_out>>
    /\ UNCHANGED <<extractVars, rankVars, formatVars, pagesVars, historyVars>>

\* search_multi_index is over: its exception leaves the block, or
\* aggregate_to_documents groups the chunks and gathers a build_candidate
\* per group; the locals of the search are gone
SearchReturns ==
    /\ ppc = "searching"
    /\ spc \in {"returned", "raised"}
    /\ IF spc = "raised"
       THEN /\ raised' = search_out.exc
            /\ ppc' = "exiting"
            /\ UNCHANGED fetches
       ELSE /\ fetches' = Coros(search_out.value)
            /\ ppc' = "aggregating"
            /\ UNCHANGED raised
    /\ spc' = "idle"
    /\ tasks' = << >>
    /\ semaphore' = 0
    /\ UNCHANGED <<keywords, vector_fields, config, search_out>>
    /\ UNCHANGED <<prep_res, main_client, agg_out, top_docs, exec_out>>
    /\ UNCHANGED <<extractVars, rankVars, formatVars, pagesVars, historyVars>>

\* get_full_content of group g up to its search: ESClient(...) and the ping
FetchAenter(g, ping) ==
    /\ fetches[g].pc = "start"
    /\ fetches' = [fetches EXCEPT ![g] =
                      IF ping = "ok"
                      THEN [@ EXCEPT !.pc = "entered", !.client = "open"]
                      ELSE [@ EXCEPT !.pc = "failed", !.client = "created",
                                     !.err = AenterError(ping)]]
    /\ UNCHANGED <<prep_res, ppc, raised, main_client, agg_out, top_docs, exec_out>>
    /\ UNCHANGED <<extractVars, rankVars, searchVars, formatVars, pagesVars, historyVars>>

\* get_full_content of group g from its search on: the block ends, with the
\* content or with an exception, and __aexit__ closes the client
FetchSearch(g, outcome) ==
    /\ fetches[g].pc = "entered"
    /\ fetches' = [fetches EXCEPT ![g] =
                      IF outcome = "ok"
                      THEN [@ EXCEPT !.pc = "done", !.client = "closed",
                                     !.full_content = EsAllMdPages(fetches[g].pdf_name)]
                      ELSE [@ EXCEPT !.pc = "failed", !.client = "closed",
                                     !.err = outcome]]
    /\ UNCHANGED <<prep_res, ppc, raised, main_client, agg_out, top_docs, exec_out>>
    /\ UNCHANGED <<extractVars, rankVars, searchVars, formatVars, pagesVars, historyVars>>

\* asyncio.gather(*coros) hands the exception of a build_candidate to
\* aggregate_to_documents, which lets it through; the other coroutines go on
AggregateRaises(g) ==
    /\ ppc = "aggregating"
    /\ fetches[g].pc = "failed"
    /\ agg_out' = [exc |-> fetches[g].err, value |-> << >>]
    /\ raised' = fetches[g].err
    /\ ppc' = "exiting"
    /\ UNCHANGED <<prep_res, main_client, fetches, top_docs, exec_out>>
    /\ UNCHANGED <<extractVars, rankVars, searchVars, formatVars, pagesVars, historyVars>>

\* every build_candidate returned: the candidates in the order of the groups
AggregateReturns ==
    /\ ppc = "aggregating"
    /\ \A g \in 1..Len(fetches) : fetches[g].pc = "done"
    /\ agg_out' = [exc |-> "none",
                   value |-> [g \in 1..Len(fetches) |-> BuiltCandidate(fetches[g])]]
    /\ ppc' = "ranking"
    /\ UNCHANGED <<prep_res, raised, main_client, fetches, top_docs, exec_out>>
    /\ UNCHANGED <<extractVars, rankVars, searchVars, formatVars, pagesVars, historyVars>>

\* rank_documents(documents=documents, top_n=3, query_keywords=keywords)
ExecRank ==
    /\ ppc = "ranking"
    /\ top_docs' = rank_documents(agg_out.value, PipelineTopN, prep_res.keywords,
                                  RRFConfig("interaction"))
    /\ ppc' = "exiting"
    /\ UNCHANGED <<prep_res, raised, main_client, fetches, agg_out, exec_out>>
    /\ UNCHANGED <<extractVars, rankVars, searchVars, formatVars, pagesVars, historyVars>>

\* the block is left, by "return top_docs" or by an exception: __aexit__
\* closes the client; the return value goes to the caller, the exception to
\* the except clause
MainAexit ==
    /\ ppc = "exiting"
    /\ main_client' = "closed"
    /\ IF raised = "none"
       THEN /\ exec_out' = [exc |-> "none", value |-> top_docs]
            /\ ppc' = "returned"
       ELSE /\ ppc' = "except"
            /\ UNCHANGED exec_out
    /\ UNCHANGED <<prep_res, raised, fetches, agg_out, top_docs>>
    /\ UNCHANGED <<extractVars, rankVars, searchVars, formatVars, pagesVars, historyVars>>

ExecExcept ==
    /\ ppc = "except"
    /\ exec_out' = ExceptHandler(raised)
    /\ ppc' = "returned"
    /\ UNCHANGED <<prep_res, raised, main_client, fetches, agg_out, top_docs>>
    /\ UNCHANGED <<extractVars, rankVars, searchVars, formatVars, pagesVars, historyVars>>

PipeNext ==
    \/ \E ping \in PingOutcomes : MainAenter(ping)
    \/ SearchNext
    \/ SearchReturns
    \/ \E g \in 1..Len(fetches), ping \in PingOutcomes : FetchAenter(g, ping)
    \/ \E g \in 1..Len(fetches), outcome \in SearchOutcomes : FetchSearch(g, outcome)
    \/ \E g \in 1..Len(fetches) : AggregateRaises(g)
    \/ AggregateReturns
    \/ ExecRank
    \/ MainAexit
    \/ ExecExcept

(***************************************************************************)
(* Specifications                                                          *)
(***************************************************************************)
(***************************************************************************)
(* format_page_tags on its own: a text, its formatting, and the formatting *)
(* of the result                                                           *)
(***************************************************************************)
\* the symbols of the texts: a marker prefix, digits, a newline, a letter
FormatSymbols == {"page_", "1", "2", "\n", "a"}

FormatContents == SeqsUpTo(FormatSymbols, MaxContentLen)

FormatIdle ==
    /\ fcontent = << >>
    /\ fpc = "idle"
    /\ formatted = << >>
    /\ reformatted = << >>

FormatInit ==
    /\ fcontent \in FormatContents
    /\ fpc = "ready"
    /\ formatted = << >>
    /\ reformatted = << >>

\* format_page_tags(fcontent)
CallFormatPageTags ==
    /\ fpc = "ready"
    /\ formatted' = format_page_tags(fcontent)
    /\ fpc' = "formatted"
    /\ UNCHANGED <<fcontent, reformatted>>
    /\ UNCHANGED <<extractVars, rankVars, searchVars, pipeVars, pagesVars, historyVars>>

\* format_page_tags on the text the first call returned
CallFormatPageTagsAgain ==
    /\ fpc = "formatted"
    /\ reformatted' = format_page_tags(formatted)
    /\ fpc' = "reformatted"
    /\ UNCHANGED <<fcontent, formatted>>
    /\ UNCHANGED <<extractVars, rankVars, searchVars, pipeVars, pagesVars, historyVars>>

FormatNext == CallFormatPageTags \/ CallFormatPageTagsAgain

(***************************************************************************)
(* _build_context and _merge_ranges on their own                           *)
(***************************************************************************)
\* a content whose markers have gaps: pages 1, 3 and 20
GappedContent ==
    <<"page_", "1", "\n", "a", "b", " ", "page_", "3", "\n", "c", "d", " ",
      "page_", "2", "0", "\n", "g">>

BuildContents == {PagedContent, GappedContent}

\* the hit pages: non-empty lists, as _extract_with_budget hands them on
HitPages == {1, 2, 4}
BuildPageNums == SeqsUpTo(HitPages, MaxChunks) \ {<< >>}

\* the values a padding of [initial_padding, 15, 10, 5, 2, 1, 0] takes
BuildPaddings == {0, 1, 2, 5, 10, 15, DefaultInitialPadding}

\* page intervals (start, end) with start <= end
PageIntervals == {r \in (1..MaxPage) \X (1..MaxPage) : r[1] <= r[2]}
MergeInputs == SeqsUpTo(PageIntervals, MaxRanges) \ {<< >>}

NoBuild == [ranges |-> << >>, merged |-> << >>, parts |-> << >>, context |-> << >>]

PagesIdle ==
    /\ b_content = << >>
    /\ b_page_nums = << >>
    /\ b_padding = 0
    /\ b_out = NoBuild
    /\ m_ranges = << >>
    /\ m_out = << >>
    /\ bpc = "idle"

PagesInit ==
    /\ b_out = NoBuild
    /\ m_out = << >>
    /\ \/ /\ bpc = "build"
          /\ b_content \in BuildContents
          /\ b_page_nums \in BuildPageNums
          /\ b_padding \in BuildPaddings
          /\ m_ranges = << >>
       \/ /\ bpc = "merge"
          /\ m_ranges \in MergeInputs
          /\ b_content = << >>
          /\ b_page_nums = << >>
          /\ b_padding = 0

\* _build_context(content, page_nums, available, padding), with the
\* available pages of the content as _extract_with_budget computes them
CallBuildContext ==
    /\ bpc = "build"
    /\ LET available == PageMarkers(b_content)
           ranges == PageRanges(b_page_nums, available, b_padding)
           merged == _merge_ranges(ranges)
       IN b_out' = [ranges |-> ranges, merged |-> merged,
                    parts |-> PageParts(b_content, merged, available),
                    context |-> _build_context(b_content, b_page_nums, available,
                                               b_padding)]
    /\ bpc' = "built"
    /\ UNCHANGED <<b_content, b_page_nums, b_padding, m_ranges, m_out>>
    /\ UNCHANGED <<extractVars, rankVars, searchVars, pipeVars, formatVars, historyVars>>

\* _merge_ranges(ranges)
CallMergeRanges ==
    /\ bpc = "merge"
    /\ m_out' = _merge_ranges(m_ranges)
    /\ bpc' = "merged"
    /\ UNCHANGED <<b_content, b_page_nums, b_padding, b_out, m_ranges>>
    /\ UNCHANGED <<extractVars, rankVars, searchVars, pipeVars, formatVars, historyVars>>

PagesNext == CallBuildContext \/ CallMergeRanges

(***************************************************************************)
(* conversation_history_manager.py                                         *)
(*                                                                         *)
(* A message is its number in order of arrival. A summary is kept as the   *)
(* list of messages handed to the compression that made it; the model's    *)
(* reply is taken to arrive (no exception of generate_content).            *)
(***************************************************************************)
DefaultRecentMessageCount == 5
DefaultCompressionThreshold == 10

\* seq[a:b] of Python for 0 <= a and 0 <= b
Slice(seq, a, b) == SubSeq(seq, a + 1, Min2(b, Len(seq)))

\* self.full_history[:-self.recent_message_count] for a count >= 1
OldMessages(history, recent) == Slice(history, 0, Max2(0, Len(history) - recent))

\* self.full_history[-self.recent_message_count:] for a count >= 1
RecentMessages(history, recent) ==
    SubSeq(history, Max2(1, Len(history) - recent + 1), Len(history))

\* start_idx = len(self.compressed_summaries) * 2
StartIdx(summaries) == Len(summaries) * 2

\* _compress_older_messages(count): the summaries after the call
_compress_older_messages(history, summaries, recent, count) ==
    LET old_messages == OldMessages(history, recent)
        start_idx == StartIdx(summaries)
        end_idx == start_idx + count
        messages_to_compress == Slice(old_messages, start_idx, end_idx)
    IN IF messages_to_compress = << >> THEN summaries
       ELSE Append(summaries, messages_to_compress)

\* add_messages(contents): the summaries after the call, history being the
\* extended full_history
SummariesAfterAdd(history, summaries, recent, threshold) ==
    IF Len(history) > threshold
    THEN LET uncompressed_count == Len(history) - recent
             already_compressed == Len(summaries)
             messages_to_compress == uncompressed_count - already_compressed
         IN IF messages_to_compress > 0
            THEN _compress_older_messages(history, summaries, recent, messages_to_compress)
            ELSE summaries
    ELSE summaries

\* get_managed_history(): the summaries it shows and the messages it gives
\* verbatim
get_managed_history(history, summaries, recent, threshold) ==
    IF Len(history) <= threshold
    THEN [summaries |-> << >>, verbatim |-> history]
    ELSE [summaries |-> summaries, verbatim |-> RecentMessages(history, recent)]

\* <<recent_message_count, compression_threshold>> of the managers built
HistorySettings ==
    {<<DefaultRecentMessageCount, DefaultCompressionThreshold>>,
     <<1, 2>>, <<2, 3>>, <<2, 2>>}

HistoryIdle ==
    /\ recent_message_count = 0
    /\ compression_threshold = 0
    /\ full_history = << >>
    /\ compressed_summaries = << >>
    /\ hpc = "idle"

\* ConversationHistoryManager(...): the defaults, or small settings
HistoryInit ==
    /\ \E setting \in HistorySettings :
          /\ recent_message_count = setting[1]
          /\ compression_threshold = setting[2]
    /\ full_history = << >>
    /\ compressed_summaries = << >>
    /\ hpc = "ready"

\* add_messages(contents) with n new messages
AddMessages(n) ==
    /\ hpc = "ready"
    /\ Len(full_history) + n <= MaxHistory
    /\ full_history' = full_history \o [i \in 1..n |-> Len(full_history) + i]
    /\ compressed_summaries' =
          SummariesAfterAdd(full_history', compressed_summaries,
                            recent_message_count, compression_threshold)
    /\ UNCHANGED <<recent_message_count, compression_threshold, hpc>>
    /\ UNCHANGED <<extractVars, rankVars, searchVars, pipeVars, formatVars, pagesVars>>

\* clear_history()
ClearHistory ==
    /\ hpc = "ready"
    /\ full_history # << >>
    /\ full_history' = << >>
    /\ compressed_summaries' = << >>
    /\ UNCHANGED <<recent_message_count, compression_threshold, hpc>>
    /\ UNCHANGED <<extractVars, rankVars, searchVars, pipeVars, formatVars, pagesVars>>

HistoryNext == (\E n \in 1..MaxBatch : AddMessages(n)) \/ ClearHistory

InitExtract == ExtractInit /\ RankIdle /\ SearchIdle /\ PipeIdle /\ FormatIdle /\ PagesIdle /\ HistoryIdle
InitRank == RankInit /\ ExtractIdle /\ SearchIdle /\ PipeIdle /\ FormatIdle /\ PagesIdle /\ HistoryIdle
InitSearch == SearchInit /\ ExtractIdle /\ RankIdle /\ PipeIdle /\ FormatIdle /\ PagesIdle /\ HistoryIdle
InitPipe == PipeInit /\ ExtractIdle /\ RankIdle /\ SearchIdle /\ FormatIdle /\ PagesIdle /\ HistoryIdle
InitFormat == FormatInit /\ ExtractIdle /\ RankIdle /\ SearchIdle /\ PipeIdle /\ PagesIdle /\ HistoryIdle
InitPages == PagesInit /\ ExtractIdle /\ RankIdle /\ SearchIdle /\ PipeIdle /\ FormatIdle /\ HistoryIdle
InitHistory == HistoryInit /\ ExtractIdle /\ RankIdle /\ SearchIdle /\ PipeIdle /\ FormatIdle /\ PagesIdle

Init == InitExtract \/ InitRank \/ InitSearch \/ InitPipe \/ InitFormat \/ InitPages \/ InitHistory
Next == ExtractNext \/ RankNext \/ PipeNext \/ FormatNext \/ PagesNext \/ HistoryNext
Spec == Init /\ [][Next]_vars

SpecExtract == InitExtract /\ [][ExtractNext]_vars
SpecRank == InitRank /\ [][RankNext]_vars
SpecSearch == InitSearch /\ [][SearchNext]_vars

\* the event loop runs every coroutine that is ready, a sleep of the retry
\* decorator ends, and every call of the backend returns or raises
SearchFairness ==
    /\ WF_vars(SearchMultiIndexStart)
    /\ WF_vars(\E t \in 1..Len(tasks) : Acquire(t))
    /\ WF_vars(\E t \in 1..Len(tasks), outcome \in BackendOutcomes : BackendResponds(t, outcome))
    /\ WF_vars(\E t \in 1..Len(tasks) : BackoffElapsed(t))
    /\ WF_vars(GatherReturn)

SpecSearchFair == InitSearch /\ [][SearchNext]_vars /\ SearchFairness
SpecPipeline == InitPipe /\ [][PipeNext]_vars
SpecFormat == InitFormat /\ [][FormatNext]_vars
SpecPages == InitPages /\ [][PagesNext]_vars
SpecHistory == InitHistory /\ [][HistoryNext]_vars

(***************************************************************************)
(* Properties                                                              *)
(***************************************************************************)

\* C1: extract_context_delta returns exactly one DocumentContext per input
\* candidate, in input order, the i-th carrying the i-th candidate's
\* document_id.
C1_OnePerCandidateInOrder ==
    xpc = "extracted" =>
        /\ results.exc = "none"
        /\ Len(results.value) = Len(candidates)
        /\ \A i \in 1..Len(candidates) :
              results.value[i].document_id = candidates[i].document_id

RECURSIVE SumTokens(_)
SumTokens(contexts) ==
    IF contexts = << >> THEN 0
    ELSE estimate_tokens(Head(contexts).context) + SumTokens(Tail(contexts))

\* C2: the token estimates of the returned contexts sum to at most
\* max_tokens plus one per document.
C2_TokenSumWithinBudget ==
    (xpc = "extracted" /\ results.exc = "none") =>
        SumTokens(results.value) <= max_tokens + Len(candidates)

FinalScore(doc) == ScoreOf(rank_config, doc, query_keywords).final_score
\* the final_score score_documents gave to each input candidate
InputScores == [i \in 1..Len(documents) |-> scored[i].final_score]
\* the position in the input of the j-th returned candidate, 0 when it is
\* not an input candidate
RankedPos ==
    [j \in 1..Len(ranked) |->
        IF \E i \in 1..Len(documents) : documents[i] = ranked[j]
        THEN CHOOSE i \in 1..Len(documents) : documents[i] = ranked[j]
        ELSE 0]
\* input candidate i comes before input candidate k in the stable
\* descending order
Ahead(sc, i, k) == sc[i] > sc[k] \/ (sc[i] = sc[k] /\ i < k)

\* C3: rank_documents returns the first min(top_n, |documents|) candidates in
\* descending final_score, candidates of equal score in input order.
C3_RankStableTopN ==
    rpc = "ranked" =>
        LET sc == InputScores
            pos == RankedPos
            n == Len(ranked)
        IN /\ n = Min2(top_n, Len(documents))
           /\ \A j \in 1..n : pos[j] # 0
           /\ \A j \in 1..(n - 1) : Ahead(sc, pos[j], pos[j + 1])
           /\ \A i \in 1..Len(documents) :
                 (\A j \in 1..n : pos[j] # i) => (n > 0 /\ Ahead(sc, pos[n], i))

\* two different candidates tie, the list is cut, and the first one is kept
C3_Witness ==
    /\ rpc = "ranked"
    /\ Len(documents) = 2
    /\ top_n = 1
    /\ documents[1].chunks # documents[2].chunks
    /\ FinalScore(documents[1]) = FinalScore(documents[2])
    /\ ranked = <<documents[1]>>

\* the extraction record of candidate i under the defaults the
\* post-retriever passes
PostTrace(i) ==
    ExtractionTrace(candidates, DefaultMaxTokens, DefaultInitialPadding)[i]

\* C8: a candidate for which the extraction yields an empty context is still
\* emitted by AsyncPostRetriever.exec_async, with an empty context.
C8_EmptyContextKept ==
    (xpc = "posted" /\ SumWeights(candidates) > 0) =>
        \A i \in 1..Len(candidates) :
            PostTrace(i).ctx.context = << >> =>
                \E j \in 1..Len(rsp_docs) :
                    /\ rsp_docs[j].document_id = candidates[i].document_id
                    /\ rsp_docs[j].context = << >>


\* the outputs of the tasks from t on that succeeded, in task order
RECURSIVE OutputsOfDone(_)
OutputsOfDone(t) ==
    IF t > Len(tasks) THEN << >>
    ELSE (IF tasks[t].pc = "done"
          THEN SearchTaskOutput(tasks[t].index, tasks[t].search_type)
          ELSE << >>) \o OutputsOfDone(t + 1)

\* C4: when search_multi_index returns, every task has run to its end
\* (none was cancelled or left behind by a failing peer), the call itself
\* did not fail, and the hit list is the concatenation, in task order, of
\* the outputs of the tasks that succeeded: nothing of a failed task,
\* everything of the others.
C4_FailedTaskDroppedPeersKept ==
    spc = "returned" =>
        /\ \A t \in 1..Len(tasks) : tasks[t].pc \in {"done", "failed"}
        /\ search_out.exc = "none"
        /\ search_out.value = OutputsOfDone(1)
        /\ \A i \in 1..Len(search_out.value) :
              \E t \in 1..Len(tasks) :
                  /\ tasks[t].pc = "done"
                  /\ tasks[t].index = search_out.value[i].source_index
                  /\ tasks[t].search_type = search_out.value[i].search_type

\* two indices, idx2 failing on every call until the retries are used up,
\* idx1 healthy: the result is not empty and holds hits of idx1 only
C4_Witness ==
    /\ spc = "returned"
    /\ config.indices = <<"idx1", "idx2">>
    /\ Len(tasks) = 4
    /\ \A t \in 1..Len(tasks) :
          IF tasks[t].index = "idx2"
          THEN tasks[t].pc = "failed" /\ tasks[t].attempts = MaxAttempts
          ELSE tasks[t].pc = "done"
    /\ search_out.value # << >>
    /\ \A i \in 1..Len(search_out.value) : search_out.value[i].source_index = "idx1"

\* the tasks that have started their backend call and not finished
InFlight == {t \in 1..Len(tasks) : tasks[t].pc \in {"calling", "backoff"}}

\* C5: at every moment of search_multi_index at most config.max_concurrent
\* tasks have started their backend call and not yet finished.
C5_AtMostMaxConcurrentInFlight ==
    spc = "gathering" => Cardinality(InFlight) <= config.max_concurrent

\* four tasks behind a semaphore of two: one has finished, two are in
\* flight and one still waits
C5_Witness ==
    /\ spc = "gathering"
    /\ Len(tasks) = 4
    /\ config.max_concurrent = 2
    /\ Cardinality(InFlight) = 2
    /\ \E t \in 1..Len(tasks) : tasks[t].pc \in {"done", "failed"}
    /\ \E t \in 1..Len(tasks) : tasks[t].pc = "waiting"

\* C10: one invocation of ESClient.search calls the backend at most 3
\* times; it waits and calls again only after a ConnectionError or a
\* RequestError and only while fewer than 3 calls were made; a response ends
\* it at once; the 3rd such failure in a row ends it with RetryError; any
\* other error ends it at the call that met it, with that error.
C10_SearchRetriesAtMostThrice ==
    \A t \in 1..Len(tasks) :
        LET k == tasks[t]
            retryable == k.last \in {"ConnectionError", "RequestError"}
        IN /\ k.attempts <= 3
           /\ (k.pc = "backoff") => (retryable /\ k.attempts < 3)
           /\ (k.pc = "calling" /\ k.attempts > 1) => retryable
           /\ (k.last = "ok") <=> (k.pc = "done")
           /\ (retryable /\ k.pc \notin {"backoff", "calling"}) =>
                 (k.pc = "failed" /\ k.err = "RetryError" /\ k.attempts = 3)
           /\ (k.last = "ApiError") => (k.pc = "failed" /\ k.err = "ApiError")
           /\ (k.pc = "failed") => (k.last # "none" /\ k.err # "none")

\* one invocation gave up after three retryable failures, one returned the
\* response of its second call, one stopped at its first call on another error
C10_Witness ==
    /\ \E t \in 1..Len(tasks) :
          tasks[t].pc = "failed" /\ tasks[t].err = "RetryError" /\ tasks[t].attempts = 3
    /\ \E t \in 1..Len(tasks) : tasks[t].pc = "done" /\ tasks[t].attempts = 2
    /\ \E t \in 1..Len(tasks) :
          tasks[t].pc = "failed" /\ tasks[t].err = "ApiError" /\ tasks[t].attempts = 1

\* C6: once aggregate_to_documents is over it has returned, not raised, one
\* candidate per group, in the order of the groups, the candidate of a
\* group whose fetch failed with full_content None.
C6_FailedFetchKeepsCandidate ==
    agg_out # NoResult =>
        /\ agg_out.exc = "none"
        /\ Len(agg_out.value) = Len(fetches)
        /\ \A g \in 1..Len(fetches) :
              /\ agg_out.value[g].document_id = fetches[g].pdf_name
              /\ fetches[g].pc = "failed" => agg_out.value[g].full_content = None

\* a stage of exec_async raised: the acquisition of the client, the search
\* or the aggregation
StageRaised ==
    \/ main_client = "created"
    \/ search_out.exc \notin {"none", "not_called"}
    \/ agg_out.exc \notin {"none", "not_called"}

\* C7: exec_async hands its caller a list and never an exception: the empty
\* list when a stage raised, else the at most 3 candidates that
\* rank_documents puts first among those of the aggregation.
C7_ExecAsyncNeverRaises ==
    ppc = "returned" =>
        /\ exec_out.exc = "none"
        /\ StageRaised => exec_out.value = << >>
        /\ ~StageRaised =>
              /\ exec_out.value = rank_documents(agg_out.value, 3, prep_res.keywords,
                                                 RRFConfig("interaction"))
              /\ Len(exec_out.value) <= 3

\* the aggregation raised after the search had found hits, and exec_async
\* returned the empty list
C7_Witness ==
    /\ ppc = "returned"
    /\ search_out.exc = "none"
    /\ search_out.value # << >>
    /\ agg_out.exc = "RetryError"
    /\ main_client = "closed"
    /\ exec_out = [exc |-> "none", value |-> << >>]

\* C9: when exec_async has returned and every build_candidate has ended,
\* every ESClient that was made has been closed.
C9_EveryClientClosed ==
    (/\ ppc = "returned"
     /\ \A g \in 1..Len(fetches) : fetches[g].pc \in {"done", "failed"}) =>
        /\ main_client = "closed"
        /\ \A g \in 1..Len(fetches) : fetches[g].client = "closed"

\* C11: a call of exec_async with empty keywords and no vector returns the
\* empty list and has contacted the backend in no way: no ESClient was made
\* and pinged, no search task and no full-content fetch was started.
C11_NoInputNoBackendContact ==
    (/\ ppc = "returned"
     /\ prep_res.keywords = << >>
     /\ prep_res.vector = None) =>
        /\ exec_out = [exc |-> "none", value |-> << >>]
        /\ main_client = "none"
        /\ search_out = NoResult
        /\ fetches = << >>

\* the keywords that are a 4-digit year, and the others
YearKeywords == SelectSeq(query_keywords, IsYearKeyword)
OtherKeywords == LET NotYear(kw) == ~IsYearKeyword(kw) IN SelectSeq(query_keywords, NotYear)

\* the text of the hits of doc holds a year that is one of the keywords
HoldsKeywordYear(doc) ==
    \E y \in 1..Len(YearKeywords), i \in 1..Len(DocText(doc)) :
        /\ YearAt(DocText(doc), i)
        /\ SubSeq(DocText(doc), i, i + 3) = Strip(YearKeywords[y])

\* the match scores of the keywords that are not years against doc
OtherScores(doc) == MatchScores(rank_config, OtherKeywords, DocWords(doc))

\* C12: under the strict strategy, with keywords made of a year and other
\* words, whenever X and Y have the same base RRF and agreement, both hold
\* the year, X scores at least 0.5 on every other keyword and Y scores
\* below 0.5 on one of them, final_score(X) - final_score(Y) is at least
\* temporal_weight.
C12_StrictTemporalGap ==
    (/\ rpc = "ranked"
     /\ rank_config.temporal_strategy = "strict"
     /\ Truthy(query_keywords)
     /\ YearKeywords # << >>
     /\ OtherKeywords # << >>) =>
        \A x, y \in 1..Len(documents) :
            LET X == scored[x]
                Y == scored[y]
                sx == OtherScores(documents[x])
                sy == OtherScores(documents[y])
            IN (/\ X.base_rrf = Y.base_rrf
                /\ X.agreement = Y.agreement
                /\ HoldsKeywordYear(documents[x])
                /\ HoldsKeywordYear(documents[y])
                /\ \A i \in 1..Len(sx) : 2 * sx[i] >= Scale
                /\ \E i \in 1..Len(sy) : 2 * sy[i] < Scale) =>
                   X.final_score - Y.final_score >= Frac(rank_config.temporal_weight)

\* the (page_number, chunk_number) pairs of doc's hits that occur under at
\* least two different search types
CrossTypePairs(doc) ==
    LET ch == doc.chunks
    IN {<<ch[i].metadata.page_number, ch[i].metadata.chunk_number>> :
           i \in {a \in 1..Len(ch) :
                     \E b \in 1..Len(ch) :
                         /\ ch[b].metadata.page_number = ch[a].metadata.page_number
                         /\ ch[b].metadata.chunk_number = ch[a].metadata.chunk_number
                         /\ ch[b].search_type # ch[a].search_type}}

\* C13: for every scored candidate with hits, agreement = (m / |hits|) *
\* agreement_boost (0.3) with m the number of (page, chunk) pairs found
\* under two search types or more; it is 0 when all hits have one search
\* type, positive when a pair is found by a lexical and a semantic search;
\* and of two candidates equal in base RRF, overlap and temporal bonus, one
\* with agreement and one without, the first is returned whenever the
\* second is, and before it.
C13_AgreementBonus ==
    rpc = "ranked" =>
        /\ \A d \in 1..Len(documents) :
              LET doc == documents[d]
                  n == Len(doc.chunks)
                  m == Cardinality(CrossTypePairs(doc))
                  agreement == scored[d].agreement
              IN n > 0 =>
                    /\ agreement * n * 10 = Scale * m * 3
                    /\ Cardinality({doc.chunks[i].search_type : i \in 1..n}) = 1
                          => agreement = 0
                    /\ m > 0 => agreement > 0
        /\ \A a, b \in 1..Len(documents) :
              LET A == scored[a]
                  B == scored[b]
              IN (/\ A.base_rrf = B.base_rrf
                  /\ A.overlap = B.overlap
                  /\ A.temporal = B.temporal
                  /\ A.agreement > 0
                  /\ B.agreement = 0) =>
                     \A j \in 1..Len(ranked) :
                         ranked[j] = documents[b] =>
                             \E i \in 1..(j - 1) : ranked[i] = documents[a]

\* the second candidate has a (page, chunk) found by a lexical and a
\* semantic search, the first has the same numbers of lexical and semantic
\* hits on different chunks: the second is returned alone
C13_Witness ==
    /\ rpc = "ranked"
    /\ top_n = 1
    /\ query_keywords = << >>
    /\ Len(documents) = 2
    /\ Len(documents[1].chunks) = 2
    /\ Len(documents[2].chunks) = 2
    /\ CrossTypePairs(documents[1]) = {}
    /\ CrossTypePairs(documents[2]) = {<<5, 2>>}
    /\ _base_rrf(rank_config, documents[1]) = _base_rrf(rank_config, documents[2])
    /\ ranked = <<documents[2]>>

\* candidate i has hits with a page number and page markers in its
\* full_content
HasPagesAndMarkers(i) ==
    /\ candidates[i].chunks # << >>
    /\ candidates[i].full_content \notin {None, << >>}
    /\ \E h \in 1..Len(candidates[i].chunks) :
          candidates[i].chunks[h].metadata.page_number > 0
    /\ PageMarkers(candidates[i].full_content) # {}

\* the budget of candidate i and the context rendered for it with padding p
BudgetOf(i) == (Len(candidates[i].chunks) * max_tokens) \div SumWeights(candidates)
Rendered(i, p) ==
    _build_context(candidates[i].full_content, PageNums(candidates[i].chunks),
                   PageMarkers(candidates[i].full_content), p)
Fits(i, p) ==
    /\ estimate_tokens(Rendered(i, p)) > 0
    /\ estimate_tokens(Rendered(i, p)) <= BudgetOf(i)

\* the paddings in the order of the claim
Ladder == <<initial_padding, 15, 10, 5, 2, 1, 0>>

\* C14, as stated: for a candidate with hit pages and page markers, when
\* some padding of the ladder fits, the returned context is that of the
\* largest padding that fits.
C14_LargestFittingPadding ==
    (xpc = "extracted" /\ results.exc = "none") =>
        \A i \in 1..Len(candidates) :
            (HasPagesAndMarkers(i) /\ \E k \in 1..7 : Fits(i, Ladder[k])) =>
                LET fitting == {Ladder[k] : k \in {j \in 1..7 : Fits(i, Ladder[j])}}
                    largest == CHOOSE p \in fitting : \A q \in fitting : q <= p
                IN results.value[i].context = Rendered(i, largest)

\* C14, amended: for a candidate with hit pages and page markers, when some
\* padding of [initial_padding, 15, 10, 5, 2, 1, 0] fits, the returned
\* context is that of the first padding in this order that fits, its token
\* estimate is in (0, budget], and when initial_padding >= 15 no larger
\* padding of the list fits.
C14_FirstFittingPadding ==
    (xpc = "extracted" /\ results.exc = "none") =>
        \A i \in 1..Len(candidates) :
            (HasPagesAndMarkers(i) /\ \E k \in 1..7 : Fits(i, Ladder[k])) =>
                LET first == CHOOSE k \in 1..7 :
                                 Fits(i, Ladder[k]) /\ \A j \in 1..(k - 1) : ~Fits(i, Ladder[j])
                    tokens == estimate_tokens(results.value[i].context)
                IN /\ results.value[i].context = Rendered(i, Ladder[first])
                   /\ tokens > 0 /\ tokens <= BudgetOf(i)
                   /\ initial_padding >= 15 =>
                         \A k \in 1..7 : Ladder[k] > Ladder[first] => ~Fits(i, Ladder[k])

\* the padding shrinks: from 25 down to 1 the rendered context is over the
\* budget, padding 0 fits and its context is returned
C14_Witness ==
    /\ xpc = "extracted"
    /\ results.exc = "none"
    /\ initial_padding = 25
    /\ Len(candidates) = 1
    /\ HasPagesAndMarkers(1)
    /\ \A k \in 1..6 : ~Fits(1, Ladder[k])
    /\ Fits(1, 0)
    /\ results.value[1].context = Rendered(1, 0)
    /\ Rendered(1, 0) # Rendered(1, 1)

\* candidate i has hits and a full_content without any page_<N> marker
NoMarkers(i) ==
    /\ candidates[i].chunks # << >>
    /\ Truthy(candidates[i].full_content)
    /\ PageMarkers(candidates[i].full_content) = {}

\* the contents of the hits selected by mask, in hit order
RECURSIVE KeptContents(_, _, _)
KeptContents(chunks, mask, k) ==
    IF k > Len(chunks) THEN << >>
    ELSE (IF mask[k] THEN <<chunks[k].content>> ELSE << >>)
         \o KeptContents(chunks, mask, k + 1)

\* every text that is hit contents joined by "\n\n", hit order kept
HitJoins(i) ==
    {Join(ChunkSeparator, KeptContents(candidates[i].chunks, mask, 1)) :
        mask \in [1..Len(candidates[i].chunks) -> BOOLEAN]}

\* C15, as stated: for a candidate with hits whose full_content has no
\* page_<N> marker, the returned context is hit contents joined by "\n\n"
\* and is not the full_content.
C15_NoMarkersRawChunks ==
    (xpc = "extracted" /\ results.exc = "none") =>
        \A i \in 1..Len(candidates) :
            NoMarkers(i) =>
                /\ results.value[i].context \in HitJoins(i)
                /\ results.value[i].context # candidates[i].full_content

\* C15, amended: for a candidate with hits whose full_content has no
\* page_<N> marker, the returned context is the whole full_content when its
\* token estimate is within the candidate's budget, and only otherwise hit
\* contents joined by "\n\n".
C15_NoMarkersFullOrRawChunks ==
    (xpc = "extracted" /\ results.exc = "none") =>
        \A i \in 1..Len(candidates) :
            NoMarkers(i) =>
                IF estimate_tokens(candidates[i].full_content) <= BudgetOf(i)
                THEN results.value[i].context = candidates[i].full_content
                ELSE /\ results.value[i].context \in HitJoins(i)
                     /\ results.value[i].context # candidates[i].full_content

\* a marker-less full_content over the budget: the context is the two hit
\* contents joined by "\n\n"
C15_Witness ==
    /\ xpc = "extracted"
    /\ results.exc = "none"
    /\ Len(candidates) = 1
    /\ NoMarkers(1)
    /\ Len(candidates[1].chunks) = 2
    /\ estimate_tokens(candidates[1].full_content) > BudgetOf(1)
    /\ results.value[1].context =
           candidates[1].chunks[1].content \o ChunkSeparator
              \o candidates[1].chunks[2].content

\* u ends with _page_<digits> before its file extension
HasPageSuffix(u) ==
    \E i \in 1..Len(u) :
        /\ u[i] = "_page_"
        /\ DigitRun(u, i + 1) # << >>
        /\ LET dot == i + 1 + Len(DigitRun(u, i + 1))
           IN /\ dot < Len(u)
              /\ u[dot] = "."
              /\ \A k \in (dot + 1)..Len(u) : u[k] # "."

\* the candidate that an emitted document was made from
CandidateOf(doc) ==
    CHOOSE i \in 1..Len(candidates) : candidates[i].document_id = doc.document_id

\* C16: the URI rewriting of the output pdf_gcs_uri is idempotent, also on
\* URIs with more than one _page_<digits> segment before the extension
\* (rewriting an emitted pdf_gcs_uri again leaves it as it is), and it is the
\* identity on a URI without a page suffix.
C16_StripPageIdempotent ==
    xpc = "posted" =>
        \A j \in 1..Len(rsp_docs) :
            LET u == candidates[CandidateOf(rsp_docs[j])].pdf_gcs_uri
            IN /\ rsp_docs[j].pdf_gcs_uri = fixed_uri(u)
               /\ fixed_uri(rsp_docs[j].pdf_gcs_uri) = rsp_docs[j].pdf_gcs_uri
               /\ ~HasPageSuffix(u) => rsp_docs[j].pdf_gcs_uri = u

\* C17: a candidate built by aggregate_to_documents has as pdf_gcs_uri the
\* first hit's gcs_uri without its _page_<digits> suffix: it has no page
\* suffix left, 'x_page_12.pdf' gives 'x.pdf', and a gcs_uri without a page
\* suffix is taken as it is.
C17_CandidateUriWithoutPageSuffix ==
    agg_out.exc = "none" =>
        \A g \in 1..Len(agg_out.value) :
            LET u == agg_out.value[g].chunks[1].metadata.gcs_uri
                pdf_gcs_uri == agg_out.value[g].pdf_gcs_uri
            IN Truthy(u) =>
                  /\ ~HasPageSuffix(pdf_gcs_uri)
                  /\ u = UriWithPage => pdf_gcs_uri = <<"x", ".", "pdf">>
                  /\ ~HasPageSuffix(u) => pdf_gcs_uri = u

\* the positions in the aggregator's input of the hits of document id, and
\* the k-th of them
HitsOf(id) ==
    {k \in 1..Len(search_out.value) : search_out.value[k].metadata.pdf_name = id}
NthHitOf(id, n) ==
    CHOOSE k \in HitsOf(id) : Cardinality({m \in HitsOf(id) : m <= k}) = n

\* C18: when aggregate_to_documents returns, its candidates partition the
\* input hits by document id: one candidate per distinct document id, the
\* hits of a candidate are exactly the input hits with its document id, each
\* once and in input order, and no hit of another document is among them.
C18_AggregatePartitionsByDocumentId ==
    agg_out.exc = "none" =>
        /\ \A g, h \in 1..Len(agg_out.value) :
              agg_out.value[g].document_id = agg_out.value[h].document_id => g = h
        /\ {agg_out.value[g].document_id : g \in 1..Len(agg_out.value)}
              = {search_out.value[k].metadata.pdf_name : k \in 1..Len(search_out.value)}
        /\ \A g \in 1..Len(agg_out.value) :
              LET c == agg_out.value[g]
              IN /\ Len(c.chunks) = Cardinality(HitsOf(c.document_id))
                 /\ \A n \in 1..Len(c.chunks) :
                       /\ c.chunks[n] = search_out.value[NthHitOf(c.document_id, n)]
                       /\ c.chunks[n].metadata.pdf_name = c.document_id

\* four hits of three documents, those of one document apart in the input:
\* three candidates, the first with the first and the third hit
C18_Witness ==
    /\ agg_out.exc = "none"
    /\ Len(search_out.value) = 4
    /\ Len(agg_out.value) = 3
    /\ HitsOf(agg_out.value[1].document_id) = {1, 3}
    /\ agg_out.value[1].chunks = <<search_out.value[1], search_out.value[3]>>
    /\ Len(agg_out.value[2].chunks) = 1

\* C19: when the call has no query keywords (None or an empty list), every
\* scored candidate has overlap 0 and temporal 0, and its final_score is its
\* base RRF plus its agreement bonus.
C19_NoKeywordsNoOverlapNoTemporal ==
    (rpc = "ranked" /\ ~Truthy(query_keywords)) =>
        /\ Len(scored) = Len(documents)
        /\ \A i \in 1..Len(scored) :
              /\ scored[i].doc = documents[i]
              /\ scored[i].overlap = 0
              /\ scored[i].temporal = 0
              /\ scored[i].final_score = scored[i].base_rrf + scored[i].agreement

\* a call without keywords under the strict strategy, on a candidate whose
\* text holds a year and that has an agreement bonus: its score is above its
\* base RRF by the agreement bonus alone
C19_Witness ==
    /\ rpc = "ranked"
    /\ query_keywords = None
    /\ rank_config.temporal_strategy = "strict"
    /\ Len(scored) = 2
    /\ DocYears(DocText(documents[1])) # {}
    /\ scored[1].agreement > 0
    /\ scored[1].base_rrf > 0
    /\ scored[1].final_score = scored[1].base_rrf + scored[1].agreement

\* C20: the text format_page_tags returns holds no page_<N> marker, so
\* formatting it again returns it unchanged; and a text without a page_<N>
\* marker is returned as it is.
C20_FormatPageTagsIdempotent ==
    /\ fpc \in {"formatted", "reformatted"} =>
          /\ PageMarkers(formatted) = {}
          /\ PageMarkers(fcontent) = {} => formatted = fcontent
    /\ fpc = "reformatted" => reformatted = formatted

\* a text with a letter in front of two markers: its formatting differs
\* from it, opens and closes both pages, and formatting the result again
\* changes nothing
C20_Witness ==
    /\ fpc = "reformatted"
    /\ fcontent = <<"a", "page_", "1", "page_", "2">>
    /\ formatted = <<"a", "<PAGE ", "1", ">", "\n", "</PAGE ", "1", ">", "\n",
                     "<PAGE ", "2", ">", "\n", "</PAGE ", "2", ">">>
    /\ reformatted = formatted

\* the extraction record of candidate i in the call under check
TraceOf(i) == ExtractionTrace(candidates, max_tokens, initial_padding)[i]

\* the contents of the first n hits of candidate i joined by "\n\n"
PrefixJoin(i, n) ==
    Join(ChunkSeparator, [k \in 1..n |-> candidates[i].chunks[k].content])

\* C21: a context that comes from the raw-chunk fallback is the "\n\n"-join
\* of a prefix hits[:n] of the candidate's hits: no hit behind a hit that did
\* not fit the budget is in it.
C21_RawChunksArePrefix ==
    (xpc = "extracted" /\ results.exc = "none") =>
        \A i \in 1..Len(candidates) :
            TraceOf(i).tier \in {"raw", "raw_empty"} =>
                \E n \in 0..Len(candidates[i].chunks) :
                    results.value[i].context = PrefixJoin(i, n)

\* C22: the part extracted for a merged interval [s, e] holds the text of no
\* page above e or below s, and starts at the marker of page s when the
\* content has one; markers with gaps and markers that are prefixes of one
\* another included.
C22_PartWithinInterval ==
    bpc = "built" =>
        \A j \in 1..Len(b_out.merged) :
            LET s == b_out.merged[j][1]
                e == b_out.merged[j][2]
                part == b_out.parts[j]
            IN s <= e =>
                  /\ PageMarkers(part) \subseteq s..e
                  /\ s \in PageMarkers(b_content) =>
                        /\ part # << >>
                        /\ part[1] = "page_"
                        /\ ToInt(DigitRun(part, 2)) = s

\* C29: every interval _build_context forms for a hit page is well-formed,
\* min_marker <= start <= end <= max_marker, also for a hit page outside the
\* range of the markers of the content.
C29_RangesWellFormed ==
    bpc = "built" =>
        /\ Len(b_out.ranges) = Len(b_page_nums)
        /\ \A j \in 1..Len(b_out.ranges) :
              /\ SetMin(PageMarkers(b_content)) <= b_out.ranges[j][1]
              /\ b_out.ranges[j][1] <= b_out.ranges[j][2]
              /\ b_out.ranges[j][2] <= SetMax(PageMarkers(b_content))

\* the pages an interval list covers
Covered(rs) == UNION {rs[j][1]..rs[j][2] : j \in 1..Len(rs)}

C24_ZeroWeightCompletes ==
    xpc = "extracted" =>
        /\ results.exc = "none"
        /\ Len(results.value) = Len(candidates)
        /\ \A i \in 1..Len(candidates) :
              (candidates[i].chunks = << >> \/ ~Truthy(candidates[i].full_content)) =>
                  results.value[i].context = << >>

\* doc has one chunk, identified by a page number or a chunk number, among
\* its hits under two different search types
SameChunkTwice(doc) ==
    \E a, b \in 1..Len(doc.chunks) :
        /\ doc.chunks[a].search_type # doc.chunks[b].search_type
        /\ Signature(doc.chunks[a]) = Signature(doc.chunks[b])
        /\ Signature(doc.chunks[a]) # <<NoneInt, NoneInt>>

\* C25: a candidate ranked by exec_async has a positive agreement bonus only
\* if one and the same chunk is among its hits under two different search
\* types; a lexical and a semantic hit that carry neither page_number nor
\* chunk number are different chunks and give no agreement.
C25_AgreementOnlyForSameChunk ==
    \A d \in 1..Len(top_docs) :
        _agreement_bonus(RRFConfig("interaction"), top_docs[d]) > 0 =>
            SameChunkTwice(top_docs[d])

\* position i of s starts a tag that begins with the symbol open
TagAt(s, i, open) ==
    /\ i <= Len(s)
    /\ s[i] = open
    /\ DigitRun(s, i + 1) # << >>
    /\ i + 1 + Len(DigitRun(s, i + 1)) <= Len(s)
    /\ s[i + 1 + Len(DigitRun(s, i + 1))] = ">"

\* the first position behind the tag or marker whose digits end at position
\* last, the newline that follows it included
Behind(s, last) == IF last + 1 <= Len(s) /\ s[last + 1] = "\n" THEN last + 2 ELSE last + 1

\* the tags of s in order, each <<"open" or "close", page number>>
RECURSIVE TagEvents(_, _)
TagEvents(s, i) ==
    IF i > Len(s) THEN << >>
    ELSE IF TagAt(s, i, "<PAGE ")
    THEN <<<<"open", DigitRun(s, i + 1)>>>> \o TagEvents(s, i + 2 + Len(DigitRun(s, i + 1)))
    ELSE IF TagAt(s, i, "</PAGE ")
    THEN <<<<"close", DigitRun(s, i + 1)>>>> \o TagEvents(s, i + 2 + Len(DigitRun(s, i + 1)))
    ELSE TagEvents(s, i + 1)

\* s without its tags; the newline right behind a tag goes with the tag
RECURSIVE WithoutTags(_, _)
WithoutTags(s, i) ==
    IF i > Len(s) THEN << >>
    ELSE IF TagAt(s, i, "<PAGE ") \/ TagAt(s, i, "</PAGE ")
    THEN WithoutTags(s, Behind(s, i + 1 + Len(DigitRun(s, i + 1))))
    ELSE <<s[i]>> \o WithoutTags(s, i + 1)

\* the page numbers of the markers of s in order
RECURSIVE MarkerNums(_, _)
MarkerNums(s, i) ==
    IF i > Len(s) THEN << >>
    ELSE IF s[i] = "page_" /\ DigitRun(s, i + 1) # << >>
    THEN <<DigitRun(s, i + 1)>> \o MarkerNums(s, i + 1 + Len(DigitRun(s, i + 1)))
    ELSE MarkerNums(s, i + 1)

\* s without its markers; the newline right behind a marker goes with it
RECURSIVE WithoutMarkers(_, _)
WithoutMarkers(s, i) ==
    IF i > Len(s) THEN << >>
    ELSE IF s[i] = "page_" /\ DigitRun(s, i + 1) # << >>
    THEN WithoutMarkers(s, Behind(s, i + Len(DigitRun(s, i + 1))))
    ELSE <<s[i]>> \o WithoutMarkers(s, i + 1)

\* C26: for a content with page_<N> markers, the tags of the output are, in
\* order, an opening and then a closing tag of each marker's page number,
\* marker by marker (every opening tag is closed before the next one opens
\* or at the end, no closing tag comes without its opening tag), and the
\* output without its tags is the input without its markers: the text
\* between markers is kept verbatim.
C26_TagsPairedTextKept ==
    (fpc \in {"formatted", "reformatted"} /\ PageMarkers(fcontent) # {}) =>
        LET events == TagEvents(formatted, 1)
            nums == MarkerNums(fcontent, 1)
        IN /\ Len(events) = 2 * Len(nums)
           /\ \A k \in 1..Len(nums) :
                 /\ events[2 * k - 1] = <<"open", nums[k]>>
                 /\ events[2 * k] = <<"close", nums[k]>>
           /\ formatted[Len(formatted)] = ">"
           /\ WithoutTags(formatted, 1) = WithoutMarkers(fcontent, 1)

\* two markers with a letter between them: both pages are opened and closed
\* in turn and the letter is kept
C26_Witness ==
    /\ fpc = "formatted"
    /\ fcontent = <<"page_", "1", "a", "page_", "2">>
    /\ TagEvents(formatted, 1) =
          <<<<"open", <<"1">>>>, <<"close", <<"1">>>>,
            <<"open", <<"2">>>>, <<"close", <<"2">>>>>>
    /\ WithoutTags(formatted, 1) = <<"a">>

\* the rank of hit i of doc in its search type when the hits of the type are
\* sorted by score, highest first, equal scores in hit order
RankInType(doc, i) ==
    1 + Cardinality({j \in 1..Len(doc.chunks) :
                        /\ doc.chunks[j].search_type = doc.chunks[i].search_type
                        /\ \/ doc.chunks[j].score > doc.chunks[i].score
                           \/ (doc.chunks[j].score = doc.chunks[i].score /\ j < i)})

\* the sum of 1/(k + rank) over the hits of doc from hit i on
RECURSIVE ReciprocalRanks(_, _)
ReciprocalRanks(doc, i) ==
    IF i > Len(doc.chunks) THEN 0
    ELSE Scale \div (RRF_k + RankInType(doc, i)) + ReciprocalRanks(doc, i + 1)

\* the search types of the hits of the rank inputs
HitTypes == {"lexical", "semantic_vector_field"}

ElementsOf(seq) == {seq[i] : i \in 1..Len(seq)}

\* the messages some entry of compressed_summaries was made from
CoveredMessages ==
    UNION {ElementsOf(compressed_summaries[s]) : s \in 1..Len(compressed_summaries)}

\* C28: once the history is longer than compression_threshold, every message
\* older than the last recent_message_count messages was part of the input
\* of some compression, so the managed history (the summaries and the recent
\* messages verbatim) leaves no message out
C28_OlderMessagesCovered ==
    (hpc = "ready" /\ Len(full_history) > compression_threshold) =>
        LET managed == get_managed_history(full_history, compressed_summaries,
                                           recent_message_count, compression_threshold)
        IN /\ ElementsOf(OldMessages(full_history, recent_message_count)) \subseteq CoveredMessages
           /\ ElementsOf(full_history) \subseteq
                (UNION {ElementsOf(managed.summaries[s]) : s \in 1..Len(managed.summaries)})
                \cup ElementsOf(managed.verbatim)


\* the same with the settings the constructor defaults to
OlderMessagesCoveredByDefault ==
    (recent_message_count = DefaultRecentMessageCount
       /\ compression_threshold = DefaultCompressionThreshold)
      => C28_OlderMessagesCovered


\* the tasks that hold a permit: inside "async with semaphore"
Admitted == {t \in 1..Len(tasks) : tasks[t].pc \in {"calling", "backoff"}}

\* every permit is either free or held by an admitted task
PermitsConserved ==
    spc \in {"gathering", "returned"} =>
        semaphore + Cardinality(Admitted) = config.max_concurrent

\* C30: with max_concurrent >= 1 and backend calls that all come back,
\* a search_multi_index that started its tasks returns; a task that failed
\* gave its permit back like one that succeeded, so every waiting task is
\* admitted and has ended, and all permits are free, when the function
\* returns
C30_SearchReturnsPermitsFree ==
    /\ [](config.max_concurrent >= 1 => PermitsConserved)
    /\ (spc = "gathering" /\ config.max_concurrent >= 1)
         ~> (spc = "returned" /\ GatherReady(tasks)
               /\ semaphore = config.max_concurrent)

\* a call with one permit returned with the permit free: the first task
\* failed, and the last task, which waited behind it, was admitted and
\* returned a result
C30_Witness ==
    /\ spc = "returned"
    /\ config.max_concurrent = 1
    /\ semaphore = 1
    /\ Len(tasks) >= 2
    /\ tasks[1].pc = "failed"
    /\ tasks[Len(tasks)].pc = "done"

====
